---- MODULE Spec2Model ----
(***************************************************************************)
(* Model of capture_and_analyze_video.py: the DevTools target resolver,    *)
(* the protocol helpers that talk to the browser over a websocket, and the *)
(* run of main() with its cleanup block.                                   *)
(*                                                                         *)
(* Time is counted in ticks.  Absent dictionary keys, None and the empty   *)
(* string are all written "" (Python treats them alike in the truth tests  *)
(* the code applies to them).                                              *)
(***************************************************************************)
EXTENDS Integers, Sequences, FiniteSets, TLC

VARIABLES
    \* _wait_for_debugger_target
    rpc,        \* position: "idle", "loop", "sleep", "returned", "timeout"
    rTarget,    \* target_url
    rElapsed,   \* time.time() - start, in ticks
    rPayload,   \* the last poll: [ok, entries], ok FALSE when the poll failed
    rResult,    \* the tuple returned: [ws, id]
    rPolls,     \* number of polls made
    rRaised,    \* line 163 has raised in some poll (history)
    \* main()
    pc,         \* position in main()
    tmpDir,     \* the temporary profile directory exists
    tmpMade,    \* tempfile.mkdtemp has created it in this run
    chrome,     \* the browser process: "none", "running", "terminating", "exited", "killed"
    exitStatus, \* exit status of the process once main() is over, -1 before
    printed,    \* what the except block printed after "ERROR: ", "" if nothing
    failure,    \* kind of the exception main() caught or let through, "" if none
    bounds,     \* bounds of line 341: << >> (None or {}) or <<dict>>
    viewport,   \* viewport of line 347: << >> (None) or <<dict>>
    region,     \* region of lines 355-368: << >> before that, then <<dict>>
    \* the protocol helper main() is in
    helper,     \* "" or "load", "front", "set_bounds", "get_bounds", "evaluate"
    hpc,        \* position in the helper
    sock,       \* the helper's websocket: "none", "open", "closed"
    opened,     \* connections the helper has created
    closes,     \* calls of ws.close() the helper has made
    requests,   \* requests sent that the browser has not answered yet
    inbox,      \* messages that arrived on the socket, not yet received
    events,     \* events the browser has emitted on this socket
    window_id,  \* window_id of lines 202 and 224
    awaited,    \* id of the request whose result the helper last read, 0 if none
    used,       \* the message that result was read from
    hElapsed,   \* time.time() - start of line 176, in ticks
    loadSeen,   \* _wait_for_load_event has received Page.loadEventFired in this run
    loadCause,  \* what made the browser fire the event the running
                \* _wait_for_load_event returned at (history)
    page,       \* the Page domain on the connection of the running helper: "" (not
                \* enabled), "enabled", or "reloaded" (the browser has taken Page.reload)
    pending,    \* the helper's outcome: [kind, error, value]
    \* capture_frames
    cpc,           \* position: "idle", "start", "loop", "returned", "raised"
    duration,      \* duration, in ticks of the clock
    fps,           \* fps, in half frames per second
    cRegion,       \* the region parameter
    cElapsed,      \* time.perf_counter() - start_time, in ticks
    frame_count,   \* frame_count
    target_frames, \* target_frames
    frame_paths,   \* frame_paths, each path by its file name
    disk,          \* the frame files written to output_dir
    grabs,         \* the regions sct.grab was called with
    stamps,        \* [prev, last]: the clock readings of the last two captures
    cError,        \* the exception capture_frames raised: [msg, filename]
    \* OpenRouterClient.chat
    kpc,           \* position: "idle", "post", "sleep", "returned", "raised"
    kCopy,         \* the copy of the method: "controllers" or "capture"
    max_retries,   \* max_retries
    backoff_initial, \* backoff_initial
    attempt,       \* attempt
    posts,         \* the outcomes of the POST requests made, in order
    sleeps,        \* the arguments of the time.sleep calls made, in order
    kError,        \* the message of the OpenRouterError raised, "" if none
    \* analyze_image.py: analyze_image and main
    apc,           \* position: "idle", "load", "exists", "client", "vision", "extract",
                   \* "print", "except", "exit"
    image_path,    \* what image_path names: "missing", "file" or "unreadable"
    aKey,          \* TRUE when OPENROUTER_API_KEY is set
    aClients,      \* the number of OpenRouterClient objects constructed
    aRequests,     \* the number of POST requests sent
    response,      \* the value chat_with_vision returned, << >> before
    aError,        \* the exception raised: its class and message, "" when none
    aPrinted,      \* TRUE when print(result) has written the result
    aStatus,       \* the value main() returned, -1 before
    \* controllers/env_loader.py
    epc,           \* position: "idle", "paths", "files", "lines", "returned"
    initialised,   \* _INITIALISED
    environ,       \* os.environ: key -> value, "" for a key that is not set
    files,         \* the file system: path -> content, a sequence of lines
    dotenv_path,   \* the argument of the call, "" for None
    paths_to_check, \* the paths of paths_to_check not yet looked at
    lines,         \* the lines of the file being parsed not yet looked at
    eCalls,        \* the number of calls of load_environment so far
    envBefore,     \* os.environ when the last call was made
    searched,      \* paths_to_check as the first call built it
    setBy          \* key -> the path of the file whose line set it, "" if none

avars == <<apc, image_path, aKey, aClients, aRequests, response, aError, aPrinted, aStatus>>

evars == <<epc, initialised, environ, files, dotenv_path, paths_to_check, lines, eCalls,
           envBefore, searched, setBy>>

rvars == <<rpc, rTarget, rElapsed, rPayload, rResult, rPolls, rRaised>>

mvars == <<pc, tmpDir, tmpMade, chrome, exitStatus, printed, failure, bounds, viewport, region>>

hvars == <<helper, hpc, sock, opened, closes, requests, inbox, events, window_id,
           awaited, used, hElapsed, loadSeen, loadCause, page, pending>>

cvars == <<cpc, duration, fps, cRegion, cElapsed, frame_count, target_frames, frame_paths,
           disk, grabs, stamps, cError>>

kvars == <<kpc, kCopy, max_retries, backoff_initial, attempt, posts, sleeps, kError>>

vars == <<rpc, rTarget, rElapsed, rPayload, rResult, rPolls, rRaised,
          pc, tmpDir, tmpMade, chrome, exitStatus, printed, failure, bounds, viewport, region,
          helper, hpc, sock, opened, closes, requests, inbox, events, window_id,
          awaited, used, hElapsed, loadSeen, loadCause, page, pending,
          cpc, duration, fps, cRegion, cElapsed, frame_count, target_frames, frame_paths,
          disk, grabs, stamps, cError,
          kpc, kCopy, max_retries, backoff_initial, attempt, posts, sleeps, kError,
          apc, image_path, aKey, aClients, aRequests, response, aError, aPrinted, aStatus,
          epc, initialised, environ, files, dotenv_path, paths_to_check, lines, eCalls,
          envBefore, searched, setBy>>

----------------------------------------------------------------------------
(* Bounds of the model *)

\* longest discovery response enumerated
MaxEntries == 2
\* the resolver's timeout, in ticks of the clock
TimeoutTicks == 2
\* longest time one poll iteration (request + sleep) may take, in ticks
MaxStep == 2
\* the timeout of _wait_for_load_event, in ticks of its 0.5 s receive timeout
LoadTimeoutTicks == 2
\* most events the browser emits on one connection
MaxEvents == 1

----------------------------------------------------------------------------
(* URLs.  A URL is [host, path]; path is the sequence of its segments and  *)
(* a segment is a sequence of tokens, the token "%20" being an escaped     *)
(* blank.                                                                  *)

Url(h, p) == [host |-> h, path |-> p]

UrlQuoted   == Url("h", << <<"a">>, <<"x", "%20", "y">> >>)
UrlPlain    == Url("h", << <<"a">>, <<"x", " ", "y">> >>)
UrlBasename == Url("h", << <<"b">>, <<"x", " ", "y">> >>)
UrlOther    == Url("h", << <<"a">>, <<"z">> >>)
UrlRoot     == Url("h", << >>)
UrlRootG    == Url("g", << >>)
\* entry.get("url", "") of an entry without a url
UrlNone     == Url("", << >>)

\* urllib.parse.unquote
UnquoteSeg(seg) == [i \in DOMAIN seg |-> IF seg[i] = "%20" THEN " " ELSE seg[i]]

unquote(u) == [host |-> u.host, path |-> [i \in DOMAIN u.path |-> UnquoteSeg(u.path[i])]]

\* Path(urlparse(u).path).name: the last segment, <<>> when there is none
PathName(u) == IF Len(u.path) = 0 THEN << >> ELSE u.path[Len(u.path)]

\* line 160: the three ways an entry's url matches the target url
UrlMatches(entry_url, target_url) ==
    LET target_unquoted == unquote(target_url)
        target_name     == PathName(target_unquoted)
        entry_unquoted  == unquote(entry_url)
        entry_name      == PathName(entry_unquoted)
    IN  \/ entry_unquoted = target_unquoted
        \/ entry_url = target_url
        \/ (target_name # << >> /\ entry_name = target_name)

----------------------------------------------------------------------------
(* Discovery responses *)

Entry(t, w, u, i, ti) == [type |-> t, ws |-> w, url |-> u, id |-> i, targetId |-> ti]

EntryUrls == {UrlQuoted, UrlPlain, UrlBasename, UrlOther}

\* every page entry over three socket urls ("" is a missing one), the four
\* urls and a present or missing id, and a few entries of other shapes
Entries ==
    {Entry("page", w, u, i, "") : w \in {"", "wsA", "wsB"}, u \in EntryUrls, i \in {"", "t1"}}
    \cup {Entry("other", "wsB", UrlQuoted, "t1", ""),
          Entry("other", "", UrlOther, "", ""),
          Entry("page", "wsA", UrlPlain, "", "t2"),
          Entry("page", "wsB", UrlRootG, "t1", ""),
          Entry("page", "wsB", UrlRoot, "t1", ""),
          Entry("page", "wsA", UrlNone, "t1", "")}

Payloads == UNION {[1..n -> Entries] : n \in 0..MaxEntries}

\* what one poll of /json gives: a decoded list, or a failure (the request
\* fails, times out, or the body is not JSON)
FailedPoll == [ok |-> FALSE, entries |-> << >>]

Polls == {[ok |-> TRUE, entries |-> p] : p \in Payloads} \cup {FailedPoll}

Targets == {UrlQuoted, UrlPlain, UrlRoot}

\* line 161: entry.get("id") or entry.get("targetId")
TargetIdOf(entry) == IF entry.id # "" THEN entry.id ELSE entry.targetId

\* ScanFrom without lines 155-156: an entry without a socket url is not skipped
RECURSIVE ScanFromNoSocketCheck(_, _, _)
ScanFromNoSocketCheck(payload, target_url, i) ==
    IF i > Len(payload) THEN [kind |-> "none", idx |-> 0, ws |-> "", id |-> ""]
    ELSE LET entry == payload[i] IN
         IF entry.type # "page" THEN ScanFromNoSocketCheck(payload, target_url, i + 1)
         ELSE IF UrlMatches(entry.url, target_url)
              THEN IF TargetIdOf(entry) = ""
                   THEN [kind |-> "error", idx |-> i, ws |-> "", id |-> ""]
                   ELSE [kind |-> "found", idx |-> i, ws |-> entry.ws, id |-> TargetIdOf(entry)]
              ELSE ScanFromNoSocketCheck(payload, target_url, i + 1)

\* ScanFrom with line 163 turned into a continue: an entry without an id is
\* passed over and the scan goes on to the next entry
RECURSIVE ScanFromSkipNoId(_, _, _)
ScanFromSkipNoId(payload, target_url, i) ==
    IF i > Len(payload) THEN [kind |-> "none", idx |-> 0, ws |-> "", id |-> ""]
    ELSE LET entry == payload[i] IN
         IF entry.type # "page" THEN ScanFromSkipNoId(payload, target_url, i + 1)
         ELSE IF entry.ws = "" THEN ScanFromSkipNoId(payload, target_url, i + 1)
         ELSE IF UrlMatches(entry.url, target_url) /\ TargetIdOf(entry) # ""
              THEN [kind |-> "found", idx |-> i, ws |-> entry.ws, id |-> TargetIdOf(entry)]
              ELSE ScanFromSkipNoId(payload, target_url, i + 1)

\* lines 151-164: the for loop over the entries of one response, from entry i.
\* "found": the function returns; "error": line 163 raises; "none": the
\* loop ends without a match.
RECURSIVE ScanFrom(_, _, _)
ScanFrom(payload, target_url, i) ==
    IF i > Len(payload) THEN [kind |-> "none", idx |-> 0, ws |-> "", id |-> ""]
    ELSE LET entry == payload[i] IN
         IF entry.type # "page" THEN ScanFrom(payload, target_url, i + 1)
         ELSE IF entry.ws = "" THEN ScanFrom(payload, target_url, i + 1)
         ELSE IF UrlMatches(entry.url, target_url)
              THEN IF TargetIdOf(entry) = ""
                   THEN [kind |-> "error", idx |-> i, ws |-> "", id |-> ""]
                   ELSE [kind |-> "found", idx |-> i, ws |-> entry.ws, id |-> TargetIdOf(entry)]
              ELSE ScanFrom(payload, target_url, i + 1)

\* lines 146-165: one poll.  A failed request or unparsable body raises
\* inside the try and is swallowed by the bare except, like line 163's error.
ScanPayload(poll, target_url) ==
    IF ~poll.ok THEN [kind |-> "none", idx |-> 0, ws |-> "", id |-> ""]
    ELSE ScanFrom(poll.entries, target_url, 1)

----------------------------------------------------------------------------
(* Protocol messages.  An absent key or None is "" for a string and << >>  *)
(* for a dict; a dict d that is present is <<d>>.                          *)

\* the "bounds" dict of a Browser.getWindowBounds result
WindowBounds(l, t, w, h) == [left |-> l, top |-> t, width |-> w, height |-> h]

BoundsSet ==
    {WindowBounds(0, 30, 1280, 690), WindowBounds(8, 30, 1280, 720),
     WindowBounds(0, 30, 0, 720),
     [top |-> 30, width |-> 1280, height |-> 720]}

\* bounds.get(key, 0)
BoundsGet(b, key) == IF key \in DOMAIN b THEN b[key] ELSE 0

\* the value of the expression of line 347 (x and y are never read)
ViewportSet ==
    {[ow |-> o, oh |-> 750, iw |-> i, ih |-> h] :
        o \in {1279, 1280, 1281}, i \in {0, 1280}, h \in {0, 690}}

Response(i, w, b, v) ==
    [kind |-> "response", id |-> i, method |-> "", windowId |-> w, bounds |-> b, value |-> v,
     cause |-> ""]

\* an event; cause tells what made the browser fire it ("" when it does not
\* matter), which the message on the wire does not carry
EventMsg(m, c) ==
    [kind |-> "event", id |-> 0, method |-> m, windowId |-> "", bounds |-> << >>, value |-> << >>,
     cause |-> c]

NoMsg ==
    [kind |-> "", id |-> 0, method |-> "", windowId |-> "", bounds |-> << >>, value |-> << >>,
     cause |-> ""]

EventMethods == {"Page.loadEventFired", "Page.frameNavigated"}

Request(i, m) == [id |-> i, method |-> m]

\* what the browser may answer to a request: its result, or an error (a
\* response without the result)
Answers(req) ==
    CASE req.method = "Browser.getWindowForTarget" ->
            {Response(req.id, "w1", << >>, << >>), Response(req.id, "", << >>, << >>)}
      [] req.method = "Browser.getWindowBounds" ->
            {Response(req.id, "", <<b>>, << >>) : b \in BoundsSet}
            \cup {Response(req.id, "", << >>, << >>)}
      [] req.method = "Runtime.evaluate" ->
            {Response(req.id, "", << >>, <<v>>) : v \in ViewportSet}
            \cup {Response(req.id, "", << >>, << >>)}
      [] OTHER -> {Response(req.id, "", << >>, << >>)}

\* the requests of the helpers, by helper and position (lines 174, 175, 200,
\* 205, 222, 227, 238, 256)
RequestAt(h, at) ==
    CASE h = "load" /\ at = "send1" -> Request(1, "Page.enable")
      [] h = "load" /\ at = "send2" -> Request(2, "Page.reload")
      [] h = "front" /\ at = "send1" -> Request(1, "Page.bringToFront")
      [] h = "set_bounds" /\ at = "send1" -> Request(1, "Browser.getWindowForTarget")
      [] h = "set_bounds" /\ at = "send2" -> Request(2, "Browser.setWindowBounds")
      [] h = "get_bounds" /\ at = "send1" -> Request(3, "Browser.getWindowForTarget")
      [] h = "get_bounds" /\ at = "send2" -> Request(4, "Browser.getWindowBounds")
      [] h = "evaluate" /\ at = "send1" -> Request(50, "Runtime.evaluate")

\* the statement after a send
AfterSend(h, at) ==
    IF h = "load" THEN (IF at = "send1" THEN "send2" ELSE "loop")
    ELSE (IF at = "send1" THEN "recv1" ELSE "recv2")

\* how a helper ends: it returns value, or raises error
Outcome(k, e, v) == [kind |-> k, error |-> e, value |-> v]

NoOutcome == Outcome("", "", << >>)

ReturnNone == Outcome("return", "", << >>)

\* no helper is running
HelperIdle ==
    /\ helper = "" /\ hpc = "idle" /\ sock = "none" /\ opened = 0 /\ closes = 0
    /\ requests = << >> /\ inbox = << >> /\ events = 0 /\ window_id = ""
    /\ awaited = 0 /\ used = NoMsg /\ hElapsed = 0 /\ loadSeen = FALSE
    /\ loadCause = "" /\ page = ""
    /\ pending = NoOutcome

\* main() has not started
MainNotStarted ==
    /\ pc = "start" /\ tmpDir = FALSE /\ tmpMade = FALSE /\ chrome = "none"
    /\ exitStatus = -1 /\ printed = "" /\ failure = ""
    /\ bounds = << >> /\ viewport = << >> /\ region = << >>

\* an exception of capture_frames: its message, and the file name when it is an
\* OSError that carries one (those raised by open do, those raised by write do
\* not)
Error(m) == [msg |-> m, filename |-> << >>]

FileError(m, f) == [msg |-> m, filename |-> <<f>>]

NoError == Error("")

\* capture_frames is not running
CaptureIdle ==
    /\ cpc = "idle" /\ duration = 0 /\ fps = 0 /\ cRegion = << >> /\ cElapsed = 0
    /\ frame_count = 0 /\ target_frames = 0 /\ frame_paths = << >> /\ disk = {}
    /\ grabs = {} /\ stamps = [prev |-> 0, last |-> 0] /\ cError = NoError

\* OpenRouterClient.chat is not running
ChatIdle ==
    /\ kpc = "idle" /\ kCopy = "" /\ max_retries = 0 /\ backoff_initial = 0 /\ attempt = 0
    /\ posts = << >> /\ sleeps = << >> /\ kError = ""

\* the keys a .env file or the environment can hold
Keys == {"K1", "K2"}

\* the paths load_environment looks at: the dotenv_path argument, .env in the
\* current directory, in its parent and in the project root
EnvPaths == {"given", "cwd", "parent", "root"}

\* analyze_image.py is not running
AnalyzeIdle ==
    /\ apc = "idle" /\ image_path = "" /\ aKey = FALSE /\ aClients = 0 /\ aRequests = 0
    /\ response = << >> /\ aError = "" /\ aPrinted = FALSE /\ aStatus = -1

\* a path that is no file, a file that read_text decodes, and one it does not
NoFile == [is_file |-> FALSE, readable |-> FALSE, lines |-> << >>]

File(ls) == [is_file |-> TRUE, readable |-> TRUE, lines |-> ls]

UnreadableFile(ls) == [is_file |-> TRUE, readable |-> FALSE, lines |-> ls]

\* no variable is set
NoEnv == [k \in Keys |-> << >>]

\* load_environment is not in use
EnvIdle ==
    /\ epc = "idle" /\ initialised = FALSE /\ environ = NoEnv
    /\ files = [p \in EnvPaths |-> NoFile] /\ dotenv_path = "" /\ paths_to_check = << >>
    /\ lines = << >> /\ eCalls = 0 /\ envBefore = NoEnv /\ searched = << >>
    /\ setBy = [k \in Keys |-> ""]

\* the resolver is not running on its own
ResolverIdle ==
    /\ rpc = "idle" /\ rTarget = UrlQuoted /\ rElapsed = 0 /\ rPayload = FailedPoll
    /\ rResult = [ws |-> "", id |-> ""] /\ rPolls = 0 /\ rRaised = FALSE

----------------------------------------------------------------------------
(* _wait_for_debugger_target *)

NoResult == [ws |-> "", id |-> ""]

\* a call of the resolver on its own: main() and the helpers are not running
InitResolver ==
    /\ rpc = "loop"
    /\ rTarget \in Targets
    /\ rElapsed = 0
    /\ rPayload = FailedPoll
    /\ rResult = NoResult
    /\ rPolls = 0
    /\ rRaised = FALSE
    /\ MainNotStarted
    /\ HelperIdle
    /\ CaptureIdle
    /\ ChatIdle
    /\ AnalyzeIdle
    /\ EnvIdle

\* RPoll without the bare except of line 165: the error of line 163 leaves
\* the function
RPollRaises ==
    /\ rpc = "loop"
    /\ rElapsed < TimeoutTicks
    /\ \E p \in Polls :
         LET s == ScanPayload(p, rTarget) IN
         /\ rPayload' = p
         /\ rPolls' = rPolls + 1
         /\ rRaised' = (rRaised \/ s.kind = "error")
         /\ IF s.kind = "found"
            THEN rpc' = "returned" /\ rResult' = [ws |-> s.ws, id |-> s.id]
            ELSE IF s.kind = "error"
            THEN rpc' = "raised" /\ rResult' = rResult
            ELSE rpc' = "sleep" /\ rResult' = rResult
    /\ UNCHANGED <<rTarget, rElapsed>>
    /\ UNCHANGED <<mvars, hvars, cvars, kvars, avars, evars>>

\* lines 145-165: the loop condition holds, the endpoint is polled and the
\* response scanned; a match returns, anything else goes on to the sleep.
RPoll ==
    /\ rpc = "loop"
    /\ rElapsed < TimeoutTicks
    /\ \E p \in Polls :
         LET s == ScanPayload(p, rTarget) IN
         /\ rPayload' = p
         /\ rPolls' = rPolls + 1
         /\ rRaised' = (rRaised \/ s.kind = "error")
         /\ IF s.kind = "found"
            THEN rpc' = "returned" /\ rResult' = [ws |-> s.ws, id |-> s.id]
            ELSE rpc' = "sleep" /\ rResult' = rResult
    /\ UNCHANGED <<rTarget, rElapsed>>
    /\ UNCHANGED <<mvars, hvars, cvars, kvars, avars, evars>>

\* line 166: time.sleep(0.1); the clock has advanced when the loop
\* condition is read again, and the response of this iteration is gone.
RSleep ==
    /\ rpc = "sleep"
    /\ \E dt \in 1..MaxStep : rElapsed' = rElapsed + dt
    /\ rpc' = "loop"
    /\ rPayload' = FailedPoll
    /\ UNCHANGED <<rTarget, rResult, rPolls, rRaised>>
    /\ UNCHANGED <<mvars, hvars, cvars, kvars, avars, evars>>

\* line 167: the loop condition fails
RTimeout ==
    /\ rpc = "loop"
    /\ rElapsed >= TimeoutTicks
    /\ rpc' = "timeout"
    /\ UNCHANGED <<rTarget, rElapsed, rPayload, rResult, rPolls, rRaised>>
    /\ UNCHANGED <<mvars, hvars, cvars, kvars, avars, evars>>

NextResolver == RPoll \/ RSleep \/ RTimeout

SpecResolver == InitResolver /\ [][NextResolver]_vars

----------------------------------------------------------------------------
(* The protocol helpers: _wait_for_load_event ("load"),                    *)
(* _bring_target_to_front ("front"), _set_window_bounds ("set_bounds"),    *)
(* _get_window_bounds ("get_bounds") and _evaluate_script ("evaluate").    *)
(* Each resolves the target, connects, and runs its body in try/finally.   *)

Helpers == {"load", "front", "set_bounds", "get_bounds", "evaluate"}

\* the helper state at the entry of helper h (h = "": no helper running)
HelperEnters(h) ==
    /\ helper' = h /\ hpc' = (IF h = "" THEN "idle" ELSE "resolve")
    /\ sock' = "none" /\ opened' = 0 /\ closes' = 0
    /\ requests' = << >> /\ inbox' = << >> /\ events' = 0 /\ window_id' = ""
    /\ awaited' = 0 /\ used' = NoMsg /\ hElapsed' = 0
    /\ loadSeen' = (IF h = "load" THEN FALSE ELSE loadSeen)
    /\ loadCause' = "" /\ page' = ""
    /\ pending' = NoOutcome

\* control leaves the try block with an outcome, through the finally clause
\* without it: an exception leaves the function at once and only a return
\* reaches the ws.close() that ends the body
LeaveTryNoFinally(outcome) ==
    /\ hpc' = (IF outcome.kind = "raise" THEN "exit" ELSE "finally")
    /\ pending' = outcome

\* lines 183, 214, 230, 248, 260: control leaves the try block with an
\* outcome; the finally clause runs before the outcome reaches the caller
LeaveTry(outcome) ==
    /\ hpc' = "finally"
    /\ pending' = outcome

\* an exception inside the try block; lines 258-259 of
\* _bring_target_to_front catch it and the helper returns None
RaiseInTry(error) ==
    IF helper = "front" THEN LeaveTry(ReturnNone)
    ELSE LeaveTry(Outcome("raise", error, << >>))

\* an exception before the try block: it leaves the helper at once
RaiseBeforeTry(error) ==
    /\ hpc' = "exit"
    /\ pending' = Outcome("raise", error, << >>)

\* lines 171, 197, 219, 235, 253: _wait_for_debugger_target returns the
\* socket url or raises its timeout error
HResolve ==
    /\ hpc = "resolve"
    /\ \E found \in BOOLEAN :
         IF found THEN hpc' = "connect" /\ pending' = pending
         ELSE RaiseBeforeTry("Timed out waiting for DevTools endpoint")
    /\ UNCHANGED <<helper, sock, opened, closes, requests, inbox, events, window_id,
                   awaited, used, hElapsed, loadSeen, loadCause, page>>
    /\ UNCHANGED <<rvars, mvars, cvars, kvars, avars, evars>>

\* lines 172, 198, 220, 236, 254: websocket.create_connection
HConnect ==
    /\ hpc = "connect"
    /\ \E ok \in BOOLEAN :
         IF ok THEN /\ sock' = "open" /\ opened' = opened + 1
                    /\ hpc' = "send1" /\ pending' = pending
         ELSE /\ RaiseBeforeTry("connection failed")
              /\ UNCHANGED <<sock, opened>>
    /\ UNCHANGED <<helper, closes, requests, inbox, events, window_id,
                   awaited, used, hElapsed, loadSeen, loadCause, page>>
    /\ UNCHANGED <<rvars, mvars, cvars, kvars, avars, evars>>

\* lines 174, 175, 200, 205, 222, 227, 238, 256: ws.send of the request of
\* this position, or its failure
HSend ==
    /\ hpc \in {"send1", "send2"}
    /\ \E ok \in BOOLEAN :
         IF ok THEN /\ requests' = Append(requests, RequestAt(helper, hpc))
                    /\ hpc' = AfterSend(helper, hpc)
                    /\ pending' = pending
         ELSE /\ RaiseInTry("send failed")
              /\ UNCHANGED requests
    /\ UNCHANGED <<helper, sock, opened, closes, inbox, events, window_id,
                   awaited, used, hElapsed, loadSeen, loadCause, page>>
    /\ UNCHANGED <<rvars, mvars, cvars, kvars, avars, evars>>

\* lines 201-204 and 223-226: the next message is read as the answer to
\* Browser.getWindowForTarget; without a windowId the helper returns
HRecvWindow ==
    /\ helper \in {"set_bounds", "get_bounds"}
    /\ hpc = "recv1"
    /\ inbox # << >>
    /\ LET msg == Head(inbox) IN
         /\ inbox' = Tail(inbox)
         /\ window_id' = msg.windowId
         /\ awaited' = RequestAt(helper, "send1").id
         /\ used' = msg
         /\ IF msg.windowId = "" THEN LeaveTry(ReturnNone)
            ELSE hpc' = "send2" /\ pending' = pending
    /\ UNCHANGED <<helper, sock, opened, closes, requests, events, hElapsed, loadSeen, loadCause, page>>
    /\ UNCHANGED <<rvars, mvars, cvars, kvars, avars, evars>>

\* lines 213 and 257: the next message is received and dropped
HRecvAck ==
    /\ \/ helper = "front" /\ hpc = "recv1"
       \/ helper = "set_bounds" /\ hpc = "recv2"
    /\ inbox # << >>
    /\ inbox' = Tail(inbox)
    /\ LeaveTry(ReturnNone)
    /\ UNCHANGED <<helper, sock, opened, closes, requests, events, window_id,
                   awaited, used, hElapsed, loadSeen, loadCause, page>>
    /\ UNCHANGED <<rvars, mvars, cvars, kvars, avars, evars>>

\* lines 228-229: the next message is read as the answer to
\* Browser.getWindowBounds
HRecvBounds ==
    /\ helper = "get_bounds"
    /\ hpc = "recv2"
    /\ inbox # << >>
    /\ LET msg == Head(inbox) IN
         /\ inbox' = Tail(inbox)
         /\ awaited' = RequestAt(helper, "send2").id
         /\ used' = msg
         /\ LeaveTry(Outcome("return", "", msg.bounds))
    /\ UNCHANGED <<helper, sock, opened, closes, requests, events, window_id,
                   hElapsed, loadSeen, loadCause, page>>
    /\ UNCHANGED <<rvars, mvars, cvars, kvars, avars, evars>>

\* lines 246-247: the next message is read as the answer to Runtime.evaluate
HRecvValue ==
    /\ helper = "evaluate"
    /\ hpc = "recv1"
    /\ inbox # << >>
    /\ LET msg == Head(inbox) IN
         /\ inbox' = Tail(inbox)
         /\ awaited' = RequestAt(helper, "send1").id
         /\ used' = msg
         /\ LeaveTry(Outcome("return", "", msg.value))
    /\ UNCHANGED <<helper, sock, opened, closes, requests, events, window_id,
                   hElapsed, loadSeen, loadCause, page>>
    /\ UNCHANGED <<rvars, mvars, cvars, kvars, avars, evars>>

\* lines 201, 213, 223, 228, 246, 257: nothing arrives and ws.recv() raises
\* (the socket timeout, or the connection is lost)
HRecvFails ==
    /\ hpc \in {"recv1", "recv2"}
    /\ inbox = << >>
    /\ \E error \in {"receive timed out", "connection lost"} : RaiseInTry(error)
    /\ UNCHANGED <<helper, sock, opened, closes, requests, inbox, events, window_id,
                   awaited, used, hElapsed, loadSeen, loadCause, page>>
    /\ UNCHANGED <<rvars, mvars, cvars, kvars, avars, evars>>

\* lines 177-181: within the timeout a message is received; the helper
\* returns if it is Page.loadEventFired and reads the clock again if not
HLoadRecv ==
    /\ helper = "load"
    /\ hpc = "loop"
    /\ hElapsed < LoadTimeoutTicks
    /\ inbox # << >>
    /\ LET msg == Head(inbox) IN
         /\ inbox' = Tail(inbox)
         /\ IF msg.method = "Page.loadEventFired"
            THEN /\ loadSeen' = TRUE /\ LeaveTry(ReturnNone) /\ hElapsed' = hElapsed
                 /\ loadCause' = msg.cause
            ELSE /\ loadSeen' = loadSeen /\ hpc' = "loop" /\ pending' = pending
                 /\ loadCause' = loadCause
                 /\ \E dt \in 0..1 : hElapsed' = hElapsed + dt
    /\ UNCHANGED <<helper, sock, opened, closes, requests, events, window_id, awaited, used,
                   page>>
    /\ UNCHANGED <<rvars, mvars, cvars, kvars, avars, evars>>

\* lines 178-182: nothing arrives within the 0.5 s of the receive timeout;
\* WebSocketTimeoutException is caught and the loop goes on
HLoadRecvTimeout ==
    /\ helper = "load"
    /\ hpc = "loop"
    /\ hElapsed < LoadTimeoutTicks
    /\ inbox = << >>
    /\ hElapsed' = hElapsed + 1
    /\ UNCHANGED <<helper, hpc, sock, opened, closes, requests, inbox, events, window_id,
                   awaited, used, loadSeen, loadCause, page, pending>>
    /\ UNCHANGED <<rvars, mvars, cvars, kvars, avars, evars>>

\* line 180: ws.recv() raises something else than the receive timeout
HLoadRecvFails ==
    /\ helper = "load"
    /\ hpc = "loop"
    /\ hElapsed < LoadTimeoutTicks
    /\ inbox = << >>
    /\ RaiseInTry("connection lost")
    /\ UNCHANGED <<helper, sock, opened, closes, requests, inbox, events, window_id,
                   awaited, used, hElapsed, loadSeen, loadCause, page>>
    /\ UNCHANGED <<rvars, mvars, cvars, kvars, avars, evars>>

\* lines 177 and 183: the loop condition fails; the function body ends and
\* the helper returns None
HLoadExpires ==
    /\ helper = "load"
    /\ hpc = "loop"
    /\ hElapsed >= LoadTimeoutTicks
    /\ LeaveTry(ReturnNone)
    /\ UNCHANGED <<helper, sock, opened, closes, requests, inbox, events, window_id,
                   awaited, used, hElapsed, loadSeen, loadCause, page>>
    /\ UNCHANGED <<rvars, mvars, cvars, kvars, avars, evars>>

\* lines 183-184, 214-215, 230-231, 248-249, 260-261: ws.close()
HFinally ==
    /\ hpc = "finally"
    /\ sock' = "closed"
    /\ closes' = closes + 1
    /\ requests' = << >>
    /\ inbox' = << >>
    /\ hpc' = "exit"
    /\ UNCHANGED <<helper, opened, events, window_id, awaited, used, hElapsed, loadSeen, loadCause, page, pending>>
    /\ UNCHANGED <<rvars, mvars, cvars, kvars, avars, evars>>

\* the page load whose end a Page.loadEventFired fired now reports: the
\* reload once the browser has taken Page.reload, and before that the load of
\* the --app url that the launch of line 335 started
LoadCauseNow == IF page = "reloaded" THEN "reload" ELSE "initial"

\* the browser answers the oldest request it has not answered
BrowserResponds ==
    /\ sock = "open"
    /\ requests # << >>
    /\ \E msg \in Answers(Head(requests)) : inbox' = Append(inbox, msg)
    /\ requests' = Tail(requests)
    /\ page' = (CASE Head(requests).method = "Page.enable" -> "enabled"
                   [] Head(requests).method = "Page.reload" -> "reloaded"
                   [] OTHER -> page)
    /\ UNCHANGED <<helper, hpc, sock, opened, closes, events, window_id, awaited, used,
                   hElapsed, loadSeen, loadCause, pending>>
    /\ UNCHANGED <<rvars, mvars, cvars, kvars, avars, evars>>

\* the browser emits an event on the connection; on the connection of
\* _wait_for_load_event the events are those of the Page domain, which are
\* sent once Page.enable has been taken
BrowserEmits ==
    /\ sock = "open"
    /\ events < MaxEvents
    /\ helper = "load" => page # ""
    /\ \E m \in EventMethods :
         inbox' = Append(inbox,
                         EventMsg(m, IF helper = "load" /\ m = "Page.loadEventFired"
                                     THEN LoadCauseNow ELSE ""))
    /\ events' = events + 1
    /\ UNCHANGED <<helper, hpc, sock, opened, closes, requests, window_id, awaited, used,
                   hElapsed, loadSeen, loadCause, page, pending>>
    /\ UNCHANGED <<rvars, mvars, cvars, kvars, avars, evars>>

HelperStep ==
    \/ HResolve \/ HConnect \/ HSend
    \/ HRecvWindow \/ HRecvAck \/ HRecvBounds \/ HRecvValue \/ HRecvFails
    \/ HLoadRecv \/ HLoadRecvTimeout \/ HLoadRecvFails \/ HLoadExpires
    \/ HFinally \/ BrowserResponds \/ BrowserEmits

----------------------------------------------------------------------------
(* main() *)

\* ComputeRegion with the side-border rule of line 353 applied to the top
\* border of line 352 as well
ComputeRegionHalvedTop(b, v) ==
    LET border_top  == (v.oh - v.ih) \div 2
        border_left == (v.ow - v.iw) \div 2
    IN  [left   |-> BoundsGet(b, "left") + border_left,
         top    |-> BoundsGet(b, "top") + border_top,
         width  |-> v.iw,
         height |-> v.ih]

\* lines 352-360: the region from the window bounds and the viewport metrics
ComputeRegion(b, v) ==
    LET border_top  == v.oh - v.ih
        border_left == (v.ow - v.iw) \div 2
    IN  [left   |-> BoundsGet(b, "left") + border_left,
         top    |-> BoundsGet(b, "top") + border_top,
         width  |-> v.iw,
         height |-> v.ih]

\* lines 363-368: the region when the viewport metrics are missing
RegionFromBounds(b) ==
    [left   |-> BoundsGet(b, "left"),
     top    |-> BoundsGet(b, "top"),
     width  |-> BoundsGet(b, "width"),
     height |-> BoundsGet(b, "height")]

\* ---------------------------------------------------------------------------
\* capture_frames (lines 275-293)
\*
\* Time is counted in ticks, TicksPerSecond to the second; duration is a number
\* of ticks and fps a number of half frames per second, so that
\* duration * fps = (duration * fps) / (2 * TicksPerSecond) frames in the
\* units of the source.

\* the resolution of the clock
TicksPerSecond == 2

\* the longest duration and the highest fps a caller passes
MaxDuration == 10

MaxFps == 6

\* the longest time one grab and write takes, and one sleep oversleeps
MaxLatency == 2

\* how far past the duration the clock is followed
MaxLate == 2

\* the argparse defaults of --duration (seconds) and --fps
DefaultDuration == 5

DefaultFps == 2

\* the digits of n, most significant first
RECURSIVE Digits(_)
Digits(n) == IF n < 10 THEN <<n>> ELSE Digits(n \div 10) \o <<n % 10>>

\* the format specification 04d: zeros on the left up to four digits
RECURSIVE Pad4(_)
Pad4(ds) == IF Len(ds) >= 4 THEN ds ELSE Pad4(<<0>> \o ds)

\* FrameName keeping the last digit of the index alone
FrameNameLastDigit(k) == Pad4(<<k % 10>>)

\* line 287: frame_{frame_count:04d}.png, as the digits between frame_ and .png
FrameName(k) == Pad4(Digits(k))

\* TargetFrames rounding up
TargetFramesCeil(d, f) == (d * f + 2 * TicksPerSecond - 1) \div (2 * TicksPerSecond)

\* line 282: int(duration * fps)
TargetFrames(d, f) == (d * f) \div (2 * TicksPerSecond)

\* Due one interval late
DueNextFrame(e, k, f) == e * f >= (k + 1) * 2 * TicksPerSecond

\* line 285: now - start_time >= frame_count * interval, interval = 1.0 / fps
Due(e, k, f) == e * f >= k * 2 * TicksPerSecond

\* the regions capture_frames is called with on its own
CaptureRegions == {[left |-> 0, top |-> 60, width |-> 1280, height |-> 690],
                   [left |-> 0, top |-> 30, width |-> 0, height |-> 720]}

\* the arguments main() passes: the defaults, one second at three frames per
\* second, and an fps of zero
MainArgs == {[duration |-> DefaultDuration * TicksPerSecond, fps |-> 2 * DefaultFps],
             [duration |-> TicksPerSecond, fps |-> 6],
             [duration |-> TicksPerSecond, fps |-> 0]}

\* the call capture_frames(region, duration, fps, output_dir)
CaptureEnters(r, d, f) ==
    /\ cpc' = "start" /\ duration' = d /\ fps' = f /\ cRegion' = r /\ cElapsed' = 0
    /\ frame_count' = 0 /\ target_frames' = 0 /\ frame_paths' = << >> /\ disk' = {}
    /\ grabs' = {} /\ stamps' = [prev |-> 0, last |-> 0] /\ cError' = NoError

\* lines 276-282: the directory, the interval, the screen handle, the start time
\* and the target; mkdir, 1.0 / fps and mss() can raise
CStart ==
    /\ cpc = "start"
    /\ \E o \in {"ok", "mkdir", "mss"} :
         IF o = "mkdir"
         THEN cpc' = "raised" /\ cError' = Error("mkdir failed") /\ target_frames' = target_frames
         ELSE IF fps = 0
         THEN /\ cpc' = "raised" /\ cError' = Error("float division by zero")
              /\ target_frames' = target_frames
         ELSE IF o = "mss"
         THEN cpc' = "raised" /\ cError' = Error("mss failed") /\ target_frames' = target_frames
         ELSE /\ cpc' = "loop" /\ cError' = cError
              /\ target_frames' = TargetFrames(duration, fps)
    /\ UNCHANGED <<duration, fps, cRegion, cElapsed, frame_count, frame_paths, disk, grabs,
                   stamps>>
    /\ UNCHANGED <<rvars, mvars, hvars, kvars, avars, evars>>

\* CGrab grabbing a region that moves with the frames
CGrabShiftedRegion ==
    /\ cpc = "loop"
    /\ frame_count < target_frames
    /\ Due(cElapsed, frame_count, fps)
    /\ \E o \in {"ok", "grab", "open", "write"}, d \in 0 .. MaxLatency :
         /\ cElapsed + d <= duration + MaxLate
         /\ cElapsed' = cElapsed + d
         /\ grabs' = grabs \cup {[cRegion EXCEPT !.left = @ + frame_count]}
         /\ IF o = "ok"
            THEN /\ disk' = disk \cup {FrameName(frame_count)}
                 /\ frame_paths' = Append(frame_paths, FrameName(frame_count))
                 /\ frame_count' = frame_count + 1
                 /\ stamps' = [prev |-> stamps.last, last |-> cElapsed]
                 /\ cpc' = cpc /\ cError' = cError
            ELSE /\ cpc' = "raised"
                 /\ cError' = (CASE o = "grab" -> Error("grab failed")
                                 [] o = "open" -> FileError("Permission denied", FrameName(frame_count))
                                 [] o = "write" -> Error("No space left on device"))
                 /\ disk' = (IF o = "write" THEN disk \cup {FrameName(frame_count)} ELSE disk)
                 /\ UNCHANGED <<frame_paths, frame_count, stamps>>
    /\ UNCHANGED <<duration, fps, cRegion, target_frames>>
    /\ UNCHANGED <<rvars, mvars, hvars, kvars, avars, evars>>

\* lines 283-290: an iteration that finds the frame due grabs the region, writes
\* the file and counts the frame; the grab and the write take time and can raise,
\* to_png in open, before the file exists ("open"), or in write, with part of the
\* file on disk ("write")
CGrab ==
    /\ cpc = "loop"
    /\ frame_count < target_frames
    /\ Due(cElapsed, frame_count, fps)
    /\ \E o \in {"ok", "grab", "open", "write"}, d \in 0 .. MaxLatency :
         /\ cElapsed + d <= duration + MaxLate
         /\ cElapsed' = cElapsed + d
         /\ grabs' = grabs \cup {cRegion}
         /\ IF o = "ok"
            THEN /\ disk' = disk \cup {FrameName(frame_count)}
                 /\ frame_paths' = Append(frame_paths, FrameName(frame_count))
                 /\ frame_count' = frame_count + 1
                 /\ stamps' = [prev |-> stamps.last, last |-> cElapsed]
                 /\ cpc' = cpc /\ cError' = cError
            ELSE /\ cpc' = "raised"
                 /\ cError' = (CASE o = "grab" -> Error("grab failed")
                                 [] o = "open" -> FileError("Permission denied", FrameName(frame_count))
                                 [] o = "write" -> Error("No space left on device"))
                 /\ disk' = (IF o = "write" THEN disk \cup {FrameName(frame_count)} ELSE disk)
                 /\ UNCHANGED <<frame_paths, frame_count, stamps>>
    /\ UNCHANGED <<duration, fps, cRegion, target_frames>>
    /\ UNCHANGED <<rvars, mvars, hvars, kvars, avars, evars>>

\* CSleep on a clock that stands still
CSleepFrozenClock ==
    /\ cpc = "loop"
    /\ frame_count < target_frames
    /\ ~Due(cElapsed, frame_count, fps)
    /\ cElapsed' = cElapsed
    /\ UNCHANGED <<cpc, duration, fps, cRegion, frame_count, target_frames, frame_paths, disk,
                   grabs, stamps, cError>>
    /\ UNCHANGED <<rvars, mvars, hvars, kvars, avars, evars>>

\* lines 291-292: an iteration that finds the frame not yet due sleeps
CSleep ==
    /\ cpc = "loop"
    /\ frame_count < target_frames
    /\ ~Due(cElapsed, frame_count, fps)
    /\ \E d \in 0 .. MaxLatency :
         /\ cElapsed + d <= duration + MaxLate
         /\ cElapsed' = cElapsed + d
    /\ UNCHANGED <<cpc, duration, fps, cRegion, frame_count, target_frames, frame_paths, disk,
                   grabs, stamps, cError>>
    /\ UNCHANGED <<rvars, mvars, hvars, kvars, avars, evars>>

\* lines 283 and 293: the loop ends at the target and the list is returned
CReturn ==
    /\ cpc = "loop"
    /\ ~(frame_count < target_frames)
    /\ cpc' = "returned"
    /\ UNCHANGED <<duration, fps, cRegion, cElapsed, frame_count, target_frames, frame_paths,
                   disk, grabs, stamps, cError>>
    /\ UNCHANGED <<rvars, mvars, hvars, kvars, avars, evars>>

CaptureStep == CStart \/ CGrab \/ CSleep \/ CReturn

\* capture_frames called on its own
InitCapture ==
    /\ MainNotStarted
    /\ HelperIdle
    /\ ResolverIdle
    /\ ChatIdle
    /\ AnalyzeIdle
    /\ EnvIdle
    /\ cpc = "start" /\ cElapsed = 0
    /\ duration \in 0 .. MaxDuration
    /\ fps \in 0 .. MaxFps
    /\ cRegion \in CaptureRegions
    /\ frame_count = 0 /\ target_frames = 0 /\ frame_paths = << >> /\ disk = {}
    /\ grabs = {} /\ stamps = [prev |-> 0, last |-> 0] /\ cError = NoError

NextCapture == CStart \/ CGrab \/ CSleep \/ CReturn

SpecCapture == InitCapture /\ [][NextCapture]_vars


\* ---------------------------------------------------------------------------
\* OpenRouterClient.chat: capture_and_analyze_video.py lines 90-116 (the copy
\* "capture") and controllers/openrouter_client.py lines 96-147 (the copy
\* "controllers").  Delays are counted in seconds.

\* the largest max_retries and backoff_initial a caller passes
MaxRetries == 3

MaxBackoff == 3

Copies == {"controllers", "capture"}

\* what one POST request comes to: a good body, a body with an "error" field,
\* a status of the retry set, another error status, no response at all, a
\* body that is not JSON (requests.JSONDecodeError since requests 2.27, a plain
\* ValueError before)
PostOutcomes ==
    {"ok", "error_payload", "status_retryable", "status_other", "connection",
     "bad_json_request", "bad_json_value"}

\* the outcomes in which the try block raises requests.RequestException
IsRequestException(o) ==
    o \in {"status_retryable", "status_other", "connection", "bad_json_request"}

\* the outcomes in which the try block raises ValueError
IsValueError(o) == o \in {"bad_json_request", "bad_json_value"}

\* Caught with a handler for every exception
CaughtEverything(o) == o # "ok"

\* lines 114 and 139: except (requests.RequestException, ValueError)
Caught(o) == IsRequestException(o) \/ IsValueError(o)

\* controllers lines 140-143: is_retryable; the other copy has no such test
IsRetryable(c, o) ==
    IF c = "controllers" THEN o = "status_retryable" \/ IsRequestException(o)
    ELSE TRUE

RECURSIVE Pow2(_)
Pow2(n) == IF n <= 0 THEN 1 ELSE 2 * Pow2(n - 1)

\* Backoff growing by the base delay at each attempt
BackoffLinear(d, a) == d * a

\* lines 116 and 146: backoff_initial * (2 ** (attempt - 1))
Backoff(d, a) == d * Pow2(a - 1)

FailedAfterAttempts == "OpenRouter request failed after max_retries attempts."

ErrorPayload == "OpenRouter returned error payload"

\* lines 101-116 and 125-145: one pass of the while loop up to the return, the
\* raise or the call of time.sleep
KPost ==
    /\ kpc = "post"
    /\ attempt' = attempt + 1
    /\ \E o \in PostOutcomes :
         /\ posts' = Append(posts, o)
         /\ IF o = "ok"
            THEN kpc' = "returned" /\ UNCHANGED <<sleeps, kError>>
            ELSE IF ~Caught(o)
            THEN kpc' = "raised" /\ kError' = ErrorPayload /\ sleeps' = sleeps
            ELSE IF ~IsRetryable(kCopy, o) \/ attempt' > max_retries
            THEN kpc' = "raised" /\ kError' = FailedAfterAttempts /\ sleeps' = sleeps
            ELSE /\ kpc' = "sleep" /\ kError' = kError
                 /\ sleeps' = Append(sleeps, Backoff(backoff_initial, attempt'))
    /\ UNCHANGED <<kCopy, max_retries, backoff_initial>>
    /\ UNCHANGED <<rvars, mvars, hvars, cvars, avars, evars>>

\* lines 116 and 147: time.sleep returns and the loop goes round
KWake ==
    /\ kpc = "sleep"
    /\ kpc' = "post"
    /\ UNCHANGED <<kCopy, max_retries, backoff_initial, attempt, posts, sleeps, kError>>
    /\ UNCHANGED <<rvars, mvars, hvars, cvars, avars, evars>>

\* chat called on its own
InitChat ==
    /\ MainNotStarted
    /\ HelperIdle
    /\ ResolverIdle
    /\ CaptureIdle
    /\ AnalyzeIdle
    /\ EnvIdle
    /\ kpc = "post"
    /\ kCopy \in Copies
    /\ max_retries \in 0 .. MaxRetries
    /\ backoff_initial \in 1 .. MaxBackoff
    /\ attempt = 0 /\ posts = << >> /\ sleeps = << >> /\ kError = ""

NextChat == KPost \/ KWake

SpecChat == InitChat /\ [][NextChat]_vars


\* ---------------------------------------------------------------------------
\* analyze_image.py: analyze_image (lines 17-92) and main (lines 95-114)

\* what chat_with_vision can return: a mapping with a content, without choices,
\* with a choice without message, with a content of None, with a choice that
\* is not a mapping, or a value that is not a mapping
ResponseShapes ==
    {"content", "no_choices", "no_message", "null_content", "bad_choice", "not_mapping"}

\* an exception leaves analyze_image and reaches the handler of line 112
ARaises(class) ==
    /\ apc' = "except"
    /\ aError' = class

\* line 60: load_environment(), which can bring the API key from a .env file
ALoad ==
    /\ apc = "load"
    /\ apc' = "exists"
    /\ \E found \in BOOLEAN : aKey' = (aKey \/ found)
    /\ UNCHANGED <<image_path, aClients, aRequests, response, aError, aPrinted, aStatus>>
    /\ UNCHANGED <<rvars, mvars, hvars, cvars, kvars, evars>>

\* AExists without the test of the path
AExistsNoTest ==
    /\ apc = "exists"
    /\ apc' = "client"
    /\ UNCHANGED <<image_path, aKey, aClients, aRequests, response, aError, aPrinted, aStatus>>
    /\ UNCHANGED <<rvars, mvars, hvars, cvars, kvars, evars>>

\* lines 63-65: the path is tested before anything else is done
AExists ==
    /\ apc = "exists"
    /\ IF image_path = "missing" THEN ARaises("ValueError")
       ELSE apc' = "client" /\ aError' = aError
    /\ UNCHANGED <<image_path, aKey, aClients, aRequests, response, aPrinted, aStatus>>
    /\ UNCHANGED <<rvars, mvars, hvars, cvars, kvars, evars>>

\* line 68: OpenRouterClient() raises without an API key
AClient ==
    /\ apc = "client"
    /\ IF aKey THEN apc' = "vision" /\ aClients' = aClients + 1 /\ aError' = aError
       ELSE ARaises("OpenRouterError") /\ aClients' = aClients
    /\ UNCHANGED <<image_path, aKey, aRequests, response, aPrinted, aStatus>>
    /\ UNCHANGED <<rvars, mvars, hvars, cvars, kvars, evars>>

\* lines 71-75: chat_with_vision encodes the image, which raises for a file
\* that cannot be read or does not exist, and calls chat, which sends one
\* request or more and returns a response or raises OpenRouterError
AVision ==
    /\ apc = "vision"
    /\ IF image_path = "missing" THEN ARaises("ValueError") /\ UNCHANGED <<aRequests, response>>
       ELSE IF image_path = "unreadable"
       THEN ARaises("OSError") /\ UNCHANGED <<aRequests, response>>
       ELSE \E n \in 1 .. MaxRetries + 1 :
              /\ aRequests' = aRequests + n
              /\ \/ ARaises("OpenRouterError") /\ response' = response
                 \/ \E shape \in ResponseShapes :
                      response' = <<shape>> /\ apc' = "extract" /\ aError' = aError
    /\ UNCHANGED <<image_path, aKey, aClients, aPrinted, aStatus>>
    /\ UNCHANGED <<rvars, mvars, hvars, cvars, kvars, evars>>

\* lines 78-92: the content of the first choice is returned; every other shape
\* of response raises OpenRouterError, directly or from the handler of line 91
AExtract ==
    /\ apc = "extract"
    /\ IF response[1] = "content" THEN apc' = "print" /\ aError' = aError
       ELSE ARaises("OpenRouterError")
    /\ UNCHANGED <<image_path, aKey, aClients, aRequests, response, aPrinted, aStatus>>
    /\ UNCHANGED <<rvars, mvars, hvars, cvars, kvars, evars>>

\* lines 109-111: print(result) and return 0; an exception of print reaches
\* the handler as well
APrint ==
    /\ apc = "print"
    /\ \E ok \in BOOLEAN :
         IF ok THEN apc' = "exit" /\ aPrinted' = TRUE /\ aStatus' = 0 /\ aError' = aError
         ELSE ARaises("OSError") /\ UNCHANGED <<aPrinted, aStatus>>
    /\ UNCHANGED <<image_path, aKey, aClients, aRequests, response>>
    /\ UNCHANGED <<rvars, mvars, hvars, cvars, kvars, evars>>

\* lines 112-114: the message goes to stderr and main() returns 1
AExcept ==
    /\ apc = "except"
    /\ apc' = "exit"
    /\ aStatus' = 1
    /\ UNCHANGED <<image_path, aKey, aClients, aRequests, response, aError, aPrinted>>
    /\ UNCHANGED <<rvars, mvars, hvars, cvars, kvars, evars>>

\* main() of analyze_image.py calls analyze_image at line 109
InitAnalyze ==
    /\ MainNotStarted
    /\ HelperIdle
    /\ ResolverIdle
    /\ CaptureIdle
    /\ ChatIdle
    /\ EnvIdle
    /\ apc = "load"
    /\ image_path \in {"missing", "file", "unreadable"}
    /\ aKey \in BOOLEAN
    /\ aClients = 0 /\ aRequests = 0 /\ response = << >> /\ aError = ""
    /\ aPrinted = FALSE /\ aStatus = -1

NextAnalyze == ALoad \/ AExists \/ AClient \/ AVision \/ AExtract \/ APrint \/ AExcept

SpecAnalyze == InitAnalyze /\ [][NextAnalyze]_vars


\* ---------------------------------------------------------------------------
\* controllers/env_loader.py: load_environment (lines 7-37) and
\* _parse_and_set_env (lines 39-60).  A value of os.environ is << >> for a
\* variable that is not set and <<v>> for one that is; a text is the sequence
\* of its characters.

\* the number of calls of load_environment in one run
MaxCalls == 2

\* a line that is blank, a comment or without "=", a line key=value, and a line
\* key=value whose assignment raises (a NUL character in the value)
SkipLine == [kind |-> "skip", key |-> "", value |-> << >>]

PairLine(k, v) == [kind |-> "pair", key |-> k, value |-> v]

BadLine(k) == [kind |-> "bad", key |-> k, value |-> <<"NUL">>]

\* the .env files of the model
EnvFiles ==
    {NoFile,
     File(<<PairLine("K1", <<"a">>)>>),
     File(<<PairLine("K1", <<"'", "'">>)>>),
     File(<<SkipLine, PairLine("K1", <<"'", "b", "'">>), PairLine("K2", <<"a">>)>>),
     File(<<BadLine("K2"), PairLine("K1", <<"\"", "c", "'">>)>>),
     File(<<PairLine("K2", <<"\"", "b", "\"">>), PairLine("K2", <<"a">>)>>),
     UnreadableFile(<<PairLine("K1", <<"a">>)>>)}

\* the environment of the process before the first call
InitialEnvs == {NoEnv, [NoEnv EXCEPT !["K1"] = <<<<"z">>>>]}

\* lines 52-54: a value between two double or two single quotes loses them
StripQuotes(v) ==
    IF /\ Len(v) >= 2
       /\ \/ v[1] = "\"" /\ v[Len(v)] = "\""
          \/ v[1] = "'" /\ v[Len(v)] = "'"
    THEN SubSeq(v, 2, Len(v) - 1)
    ELSE v

\* SetEnv without the test of the key
SetEnvOverriding(env, k, v) == [env EXCEPT ![k] = <<v>>]

\* lines 56-57: if key and key not in os.environ: os.environ[key] = value
SetEnv(env, k, v) ==
    IF k # "" /\ env[k] = << >> THEN [env EXCEPT ![k] = <<v>>] ELSE env

\* lines 7-27: a call; it returns at once when _INITIALISED is set, and builds
\* paths_to_check otherwise, the project root only when it is not the current
\* directory
ECall ==
    /\ epc \in {"idle", "returned"}
    /\ eCalls < MaxCalls
    /\ eCalls' = eCalls + 1
    /\ envBefore' = environ
    /\ \E d \in {"", "given"}, rootIsCwd \in BOOLEAN :
         /\ dotenv_path' = d
         /\ IF initialised
            THEN epc' = "returned" /\ UNCHANGED <<paths_to_check, searched>>
            ELSE /\ epc' = "files"
                 /\ paths_to_check' = (IF d # "" THEN <<d>> ELSE << >>)
                                        \o <<"cwd", "parent">>
                                        \o (IF rootIsCwd THEN << >> ELSE <<"root">>)
                 /\ searched' = paths_to_check'
    /\ UNCHANGED <<initialised, environ, files, lines, setBy>>
    /\ UNCHANGED <<rvars, mvars, hvars, cvars, kvars, avars>>

\* lines 29-31, 37 and 40-41: the next path; a file is read, and a file that
\* cannot be read is passed over by the handler of line 59; after the last path
\* _INITIALISED is set
EFile ==
    /\ epc = "files"
    /\ IF paths_to_check = << >>
       THEN epc' = "returned" /\ initialised' = TRUE /\ UNCHANGED <<paths_to_check, lines>>
       ELSE LET f == files[Head(paths_to_check)] IN
              /\ initialised' = initialised
              /\ IF f.is_file /\ f.readable
                 THEN epc' = "lines" /\ lines' = f.lines /\ paths_to_check' = paths_to_check
                 ELSE epc' = epc /\ lines' = lines /\ paths_to_check' = Tail(paths_to_check)
    /\ UNCHANGED <<environ, files, dotenv_path, eCalls, envBefore, searched, setBy>>
    /\ UNCHANGED <<rvars, mvars, hvars, cvars, kvars, avars>>

\* lines 42-60: the next line of the file; an assignment that raises ends the
\* file in the handler of line 59
ELine ==
    /\ epc = "lines"
    /\ IF lines = << >>
       THEN /\ epc' = "files" /\ paths_to_check' = Tail(paths_to_check)
            /\ UNCHANGED <<lines, environ, setBy>>
       ELSE LET l == Head(lines) IN
              IF l.kind = "bad" /\ environ[l.key] = << >>
              THEN /\ epc' = "files" /\ paths_to_check' = Tail(paths_to_check)
                   /\ lines' = << >> /\ UNCHANGED <<environ, setBy>>
              ELSE /\ epc' = epc /\ paths_to_check' = paths_to_check
                   /\ lines' = Tail(lines)
                   /\ environ' = (IF l.kind = "skip" THEN environ
                                  ELSE SetEnv(environ, l.key, StripQuotes(l.value)))
                   /\ setBy' = (IF l.kind = "skip" \/ environ' = environ THEN setBy
                                ELSE [setBy EXCEPT ![l.key] = Head(paths_to_check)])
    /\ UNCHANGED <<initialised, files, dotenv_path, eCalls, envBefore, searched>>
    /\ UNCHANGED <<rvars, mvars, hvars, cvars, kvars, avars>>

\* a process that calls load_environment
InitEnv ==
    /\ MainNotStarted
    /\ HelperIdle
    /\ ResolverIdle
    /\ CaptureIdle
    /\ ChatIdle
    /\ AnalyzeIdle
    /\ epc = "idle" /\ initialised = FALSE
    /\ environ \in InitialEnvs
    /\ files \in [EnvPaths -> EnvFiles]
    /\ dotenv_path = "" /\ paths_to_check = << >> /\ lines = << >> /\ eCalls = 0
    /\ envBefore = environ /\ searched = << >> /\ setBy = [k \in Keys |-> ""]

NextEnv == ECall \/ EFile \/ ELine

SpecEnv == InitEnv /\ [][NextEnv]_vars


Init ==
    /\ MainNotStarted
    /\ HelperIdle
    /\ ResolverIdle
    /\ CaptureIdle
    /\ ChatIdle
    /\ AnalyzeIdle
    /\ EnvIdle

\* an exception raised inside the try block of lines 337-401 reaches the
\* except clause of line 403
Raises(error) ==
    /\ pc' = "except"
    /\ failure' = error
    /\ HelperEnters("")

\* lines 305-314: a local file that does not exist ends the run
MStart ==
    /\ pc = "start"
    /\ \E exists \in BOOLEAN :
         IF exists THEN pc' = "setup" /\ exitStatus' = exitStatus
         ELSE pc' = "done" /\ exitStatus' = 0
    /\ UNCHANGED <<tmpDir, tmpMade, chrome, printed, failure, bounds, viewport, region>>
    /\ UNCHANGED <<rvars, hvars, cvars, kvars, avars, evars>>

\* lines 316-318: tempfile.mkdtemp
MSetup ==
    /\ pc = "setup"
    /\ tmpDir' = TRUE
    /\ tmpMade' = TRUE
    /\ pc' = "launch"
    /\ UNCHANGED <<chrome, exitStatus, printed, failure, bounds, viewport, region>>
    /\ UNCHANGED <<rvars, hvars, cvars, kvars, avars, evars>>

\* line 335: subprocess.Popen, before the try block; when it raises (the
\* browser binary is missing) the exception leaves main() and the
\* interpreter exits with status 1.  Line 338 follows a launch.
MLaunch ==
    /\ pc = "launch"
    /\ \E ok \in BOOLEAN :
         IF ok THEN /\ chrome' = "running" /\ pc' = "load" /\ HelperEnters("load")
                    /\ UNCHANGED <<exitStatus, failure>>
         ELSE /\ pc' = "done" /\ exitStatus' = 1 /\ failure' = "launch failed"
              /\ UNCHANGED <<chrome, hvars>>
    /\ UNCHANGED <<tmpDir, tmpMade, printed, bounds, viewport, region>>
    /\ UNCHANGED <<rvars, cvars, kvars, avars, evars>>

\* line 338: _wait_for_load_event is over; line 339 follows a return
MAfterLoad ==
    /\ pc = "load" /\ hpc = "exit"
    /\ IF pending.kind = "raise" THEN Raises(pending.error)
       ELSE pc' = "front" /\ HelperEnters("front") /\ failure' = failure
    /\ UNCHANGED <<tmpDir, tmpMade, chrome, exitStatus, printed, bounds, viewport, region>>
    /\ UNCHANGED <<rvars, cvars, kvars, avars, evars>>

\* line 339: _bring_target_to_front is over; line 340 follows a return
MAfterFront ==
    /\ pc = "front" /\ hpc = "exit"
    /\ IF pending.kind = "raise" THEN Raises(pending.error)
       ELSE pc' = "set_bounds" /\ HelperEnters("set_bounds") /\ failure' = failure
    /\ UNCHANGED <<tmpDir, tmpMade, chrome, exitStatus, printed, bounds, viewport, region>>
    /\ UNCHANGED <<rvars, cvars, kvars, avars, evars>>

\* line 340: _set_window_bounds is over; line 341 follows a return
MAfterSetBounds ==
    /\ pc = "set_bounds" /\ hpc = "exit"
    /\ IF pending.kind = "raise" THEN Raises(pending.error)
       ELSE pc' = "get_bounds" /\ HelperEnters("get_bounds") /\ failure' = failure
    /\ UNCHANGED <<tmpDir, tmpMade, chrome, exitStatus, printed, bounds, viewport, region>>
    /\ UNCHANGED <<rvars, cvars, kvars, avars, evars>>

\* MAfterGetBounds going on with the window of the launch flags when the helper
\* returns None
MAfterGetBoundsLaunchWindow ==
    /\ pc = "get_bounds" /\ hpc = "exit"
    /\ IF pending.kind = "raise" THEN Raises(pending.error) /\ bounds' = bounds
       ELSE /\ bounds' = (IF pending.value = << >> THEN <<WindowBounds(0, 0, 1280, 720)>>
                          ELSE pending.value)
            /\ pc' = "evaluate" /\ HelperEnters("evaluate") /\ failure' = failure
    /\ UNCHANGED <<tmpDir, tmpMade, chrome, exitStatus, printed, viewport, region>>
    /\ UNCHANGED <<rvars, cvars, kvars, avars, evars>>

\* lines 341-347: _get_window_bounds is over; without bounds line 343
\* raises, with bounds _evaluate_script is called
MAfterGetBounds ==
    /\ pc = "get_bounds" /\ hpc = "exit"
    /\ IF pending.kind = "raise" THEN Raises(pending.error) /\ bounds' = bounds
       ELSE /\ bounds' = pending.value
            /\ IF pending.value = << >>
               THEN Raises("Failed to read Chrome window bounds from DevTools.")
               ELSE pc' = "evaluate" /\ HelperEnters("evaluate") /\ failure' = failure
    /\ UNCHANGED <<tmpDir, tmpMade, chrome, exitStatus, printed, viewport, region>>
    /\ UNCHANGED <<rvars, cvars, kvars, avars, evars>>

\* lines 347-368: _evaluate_script is over; the region is computed from
\* the viewport metrics, or from the bounds alone when there are none
MAfterEvaluate ==
    /\ pc = "evaluate" /\ hpc = "exit"
    /\ IF pending.kind = "raise"
       THEN Raises(pending.error) /\ UNCHANGED <<viewport, region>>
       ELSE /\ viewport' = pending.value
            /\ region' = IF pending.value # << >>
                          THEN <<ComputeRegion(bounds[1], pending.value[1])>>
                          ELSE <<RegionFromBounds(bounds[1])>>
            /\ pc' = "validate" /\ HelperEnters("") /\ failure' = failure
    /\ UNCHANGED <<tmpDir, tmpMade, chrome, exitStatus, printed, bounds>>
    /\ UNCHANGED <<rvars, cvars, kvars, avars, evars>>

\* MValidate with the test of the width alone
MValidateWidthOnly ==
    /\ pc = "validate"
    /\ IF region[1].width <= 0
       THEN Raises("Invalid window bounds detected.")
       ELSE pc' = "capture" /\ failure' = failure /\ UNCHANGED hvars
    /\ UNCHANGED <<tmpDir, tmpMade, chrome, exitStatus, printed, bounds, viewport, region>>
    /\ UNCHANGED <<rvars, cvars, kvars, avars, evars>>

\* lines 370-384: the region is validated; the focus commands and the
\* output directory name cannot fail
MValidate ==
    /\ pc = "validate"
    /\ IF region[1].width <= 0 \/ region[1].height <= 0
       THEN Raises("Invalid window bounds detected.")
       ELSE pc' = "capture" /\ failure' = failure /\ UNCHANGED hvars
    /\ UNCHANGED <<tmpDir, tmpMade, chrome, exitStatus, printed, bounds, viewport, region>>
    /\ UNCHANGED <<rvars, cvars, kvars, avars, evars>>

\* line 385: capture_frames is called with the region and the arguments
MCapture ==
    /\ pc = "capture"
    /\ cpc = "idle"
    /\ \E a \in MainArgs : CaptureEnters(region[1], a.duration, a.fps)
    /\ UNCHANGED <<rvars, mvars, hvars, kvars, avars, evars>>

\* lines 385-386: the frame list comes back, or the exception reaches the
\* handler; the clock readings of capture_frames end with its frame
MAfterCapture ==
    /\ pc = "capture"
    /\ cpc \in {"returned", "raised"}
    /\ IF cpc = "returned"
       THEN pc' = "client" /\ failure' = failure /\ UNCHANGED hvars
       ELSE Raises(cError.msg)
    /\ cElapsed' = 0 /\ stamps' = [prev |-> 0, last |-> 0]
    /\ UNCHANGED <<cpc, duration, fps, cRegion, frame_count, target_frames, frame_paths, disk,
                   grabs, cError>>
    /\ UNCHANGED <<tmpDir, tmpMade, chrome, exitStatus, printed, bounds, viewport, region>>
    /\ UNCHANGED <<rvars, kvars, avars, evars>>

\* line 392: OpenRouterClient() raises without an API key
MClient ==
    /\ pc = "client"
    /\ \E ok \in BOOLEAN :
         IF ok THEN pc' = "vision" /\ failure' = failure /\ UNCHANGED hvars
         ELSE Raises("OPENROUTER_API_KEY environment variable must be set.")
    /\ UNCHANGED <<tmpDir, tmpMade, chrome, exitStatus, printed, bounds, viewport, region>>
    /\ UNCHANGED <<rvars, cvars, kvars, avars, evars>>

\* lines 393-401: the vision request; its result is printed, or it raises
MVision ==
    /\ pc = "vision"
    /\ \E ok \in BOOLEAN :
         IF ok THEN pc' = "terminate" /\ failure' = failure /\ UNCHANGED hvars
         ELSE Raises("OpenRouter request failed")
    /\ UNCHANGED <<tmpDir, tmpMade, chrome, exitStatus, printed, bounds, viewport, region>>
    /\ UNCHANGED <<rvars, cvars, kvars, avars, evars>>

\* lines 403-404: print(f"\nERROR: {e}")
MExcept ==
    /\ pc = "except"
    /\ printed' = failure
    /\ pc' = "terminate"
    /\ UNCHANGED <<tmpDir, tmpMade, chrome, exitStatus, failure, bounds, viewport, region>>
    /\ UNCHANGED <<rvars, hvars, cvars, kvars, avars, evars>>

\* line 406: chrome_proc.terminate()
MTerminate ==
    /\ pc = "terminate"
    /\ chrome' = "terminating"
    /\ pc' = "wait"
    /\ UNCHANGED <<tmpDir, tmpMade, exitStatus, printed, failure, bounds, viewport, region>>
    /\ UNCHANGED <<rvars, hvars, cvars, kvars, avars, evars>>

\* MWait going on to the kill whether the process has exited or not
MWaitAlwaysKills ==
    /\ pc = "wait"
    /\ \E exited \in BOOLEAN :
         IF exited THEN chrome' = "exited" /\ pc' = "kill"
         ELSE chrome' = chrome /\ pc' = "kill"
    /\ UNCHANGED <<tmpDir, tmpMade, exitStatus, printed, failure, bounds, viewport, region>>
    /\ UNCHANGED <<rvars, hvars, cvars, kvars, avars, evars>>

\* lines 407-409: chrome_proc.wait(timeout=2) returns when the process has
\* exited, and raises when it has not within 2 s
MWait ==
    /\ pc = "wait"
    /\ \E exited \in BOOLEAN :
         IF exited THEN chrome' = "exited" /\ pc' = "rmtree"
         ELSE chrome' = chrome /\ pc' = "kill"
    /\ UNCHANGED <<tmpDir, tmpMade, exitStatus, printed, failure, bounds, viewport, region>>
    /\ UNCHANGED <<rvars, hvars, cvars, kvars, avars, evars>>

\* line 410: chrome_proc.kill()
MKill ==
    /\ pc = "kill"
    /\ chrome' = "killed"
    /\ pc' = "rmtree"
    /\ UNCHANGED <<tmpDir, tmpMade, exitStatus, printed, failure, bounds, viewport, region>>
    /\ UNCHANGED <<rvars, hvars, cvars, kvars, avars, evars>>

\* line 411 and 414: shutil.rmtree; main() returns and asyncio.run returns,
\* so the interpreter exits with status 0
MRmtree ==
    /\ pc = "rmtree"
    /\ tmpDir' = FALSE
    /\ pc' = "done"
    /\ exitStatus' = 0
    /\ UNCHANGED <<tmpMade, chrome, printed, failure, bounds, viewport, region>>
    /\ UNCHANGED <<rvars, hvars, cvars, kvars, avars, evars>>

Next ==
    \/ MStart \/ MSetup \/ MLaunch
    \/ MAfterLoad \/ MAfterFront \/ MAfterSetBounds \/ MAfterGetBounds \/ MAfterEvaluate
    \/ MValidate \/ MCapture \/ CaptureStep \/ MAfterCapture \/ MClient \/ MVision
    \/ MExcept \/ MTerminate \/ MWait \/ MKill \/ MRmtree
    \/ HelperStep

Spec == Init /\ [][Next]_vars

\* main() under a scheduler that never stops it: the event loop resumes every
\* await, every blocking call returns or times out, and the clock advances
FairSpec == Spec /\ WF_vars(Next)

----------------------------------------------------------------------------
(* Properties of _wait_for_debugger_target *)

\* the entries of the last response
LastEntries == rPayload.entries

\* the url of the entry equals the target url, percent-decoded or raw
ExactUrl(e) == unquote(e.url) = unquote(rTarget) \/ e.url = rTarget

\* the entry can be returned: a page with a socket url and an id
Complete(e) == e.type = "page" /\ e.ws # "" /\ TargetIdOf(e) # ""

\* the entry is the one the resolver returned
Returned(e) == rResult = [ws |-> e.ws, id |-> TargetIdOf(e)]

\* a page entry with a socket url whose url matches the target url
Candidate(e) == e.type = "page" /\ e.ws # "" /\ UrlMatches(e.url, rTarget)

\* the position of the first candidate of the last response, 0 if none
FirstCandidate ==
    LET is == {i \in DOMAIN LastEntries : Candidate(LastEntries[i])}
    IN  IF is = {} THEN 0 ELSE CHOOSE i \in is : \A j \in is : i <= j

\* C4 (as claimed): when the response lists an exact-url page entry and a
\* page entry that matches by file name only, both with a socket url and an
\* id, the entry returned is an exact-url one.
C4_ExactMatchPreferred ==
    (/\ rpc = "returned"
     /\ \E i \in DOMAIN LastEntries : Complete(LastEntries[i]) /\ ExactUrl(LastEntries[i])
     /\ \E j \in DOMAIN LastEntries :
           /\ Complete(LastEntries[j]) /\ ~ExactUrl(LastEntries[j])
           /\ UrlMatches(LastEntries[j].url, rTarget))
    => \E i \in DOMAIN LastEntries :
           /\ LastEntries[i].type = "page" /\ ExactUrl(LastEntries[i])
           /\ Returned(LastEntries[i])

\* C5: whatever was polled, what the resolver returns is the non-empty
\* socket url (and the id) of an entry of the last response that has type
\* "page" and whose url matches the target url.
C5_ReturnsPageWithSocketUrl ==
    rpc = "returned" =>
        /\ rResult.ws # ""
        /\ rPayload.ok
        /\ \E i \in DOMAIN LastEntries :
              /\ LastEntries[i].type = "page"
              /\ LastEntries[i].ws # ""
              /\ UrlMatches(LastEntries[i].url, rTarget)
              /\ Returned(LastEntries[i])

\* C5 witness: the resolver returned the second entry after passing over a
\* matching page entry that has an id but no socket url.
C5_Witness ==
    /\ rpc = "returned"
    /\ Len(LastEntries) = 2
    /\ LastEntries[1].type = "page" /\ LastEntries[1].ws = "" /\ LastEntries[1].id # ""
    /\ UrlMatches(LastEntries[1].url, rTarget)
    /\ Returned(LastEntries[2])

\* a page entry whose url matches but which has no socket url
SocketlessMatch(e) == e.type = "page" /\ e.ws = "" /\ UrlMatches(e.url, rTarget)

\* C6 (as claimed): a response whose matching page entries lack a socket
\* url makes the resolver fail with an error of its own, not the timeout.
C6_MissingSocketUrlFails ==
    (/\ rPayload.ok
     /\ \E i \in DOMAIN LastEntries : SocketlessMatch(LastEntries[i])
     /\ FirstCandidate = 0)
    => rpc \notin {"loop", "sleep", "returned", "timeout"}

\* C6 (amended): a matching page entry without a socket url is skipped.  A
\* response whose matching page entries all lack a socket url leaves the
\* resolver polling, and the resolver fails only with the timeout error,
\* only once the timeout has elapsed.
C6_MissingSocketUrlSkipped ==
    /\ (/\ rPayload.ok
        /\ \E i \in DOMAIN LastEntries : SocketlessMatch(LastEntries[i])
        /\ FirstCandidate = 0)
       => rpc = "sleep"
    /\ rpc \in {"loop", "sleep", "returned", "timeout"}
    /\ rpc = "timeout" => (rElapsed >= TimeoutTicks /\ rResult = NoResult)

\* C6 witness: the resolver goes on to the sleep after a response whose only
\* matching page entry has an id and no socket url.
C6_Witness ==
    /\ rpc = "sleep"
    /\ rPayload.ok
    /\ \E i \in DOMAIN LastEntries : SocketlessMatch(LastEntries[i]) /\ LastEntries[i].id # ""
    /\ FirstCandidate = 0


\* the resolver has returned or raised
ResolverDone == rpc \in {"returned", "timeout"}

\* C7 (as claimed): the poll that lists a matching entry (a page with a
\* socket url whose url matches) is the poll at which the resolver returns.
C7_ReturnsAtFirstMatchingPoll ==
    (rPayload.ok /\ FirstCandidate # 0) => rpc = "returned"

\* what C7 says of every state: a poll ends the resolver exactly when the
\* first candidate of its response has an id, anything else (a failed poll,
\* no candidate, a first candidate without id) leaves it polling; every
\* iteration moves the clock, so there are never more polls than ticks in
\* the timeout; the timeout error comes only once the timeout has elapsed.
PollingInvariant ==
    /\ rpc \in {"sleep", "returned"} =>
          (rpc = "returned" <=>
              (/\ rPayload.ok
               /\ FirstCandidate # 0
               /\ TargetIdOf(LastEntries[FirstCandidate]) # ""))
    /\ rpc = "returned" => Returned(LastEntries[FirstCandidate])
    /\ rPolls <= TimeoutTicks
    /\ rpc = "timeout" => (rElapsed >= TimeoutTicks /\ rResult = NoResult)
    /\ rpc = "loop" => rPolls <= rElapsed

\* a natural number that every step of the resolver makes smaller
ResolverMeasure ==
    3 * (TimeoutTicks + MaxStep - rElapsed)
    + (IF rpc = "loop" THEN 2 ELSE IF rpc = "sleep" THEN 1 ELSE 0)

\* C7 (amended): the resolver keeps polling, taking a failed or unparsable
\* poll, and a poll whose first matching entry has no id, as "no match yet";
\* it returns at the first poll whose first matching entry has an id, fails
\* with the timeout error once the timeout has elapsed without one, and
\* always ends in one of the two: until it has returned or raised it can
\* take a step, and every step lowers a measure that stays a natural number.
C7_PollsUntilMatchOrTimeout ==
    /\ []PollingInvariant
    /\ [](ResolverDone \/ ENABLED NextResolver)
    /\ [](ResolverMeasure >= 0)
    /\ [][ResolverMeasure' < ResolverMeasure]_vars

\* C7 witness: the resolver's second poll lists a matching entry without an
\* id ahead of a complete matching entry, and the resolver goes on to sleep
\* and poll again.
C7_Witness ==
    /\ rpc = "sleep"
    /\ rPolls = 2
    /\ rPayload.ok
    /\ FirstCandidate # 0
    /\ TargetIdOf(LastEntries[FirstCandidate]) = ""
    /\ Len(LastEntries) = 2
    /\ Complete(LastEntries[2]) /\ Candidate(LastEntries[2])

----------------------------------------------------------------------------
(* Properties of main() and of the protocol helpers *)

\* the stage of the run an exception came from
FailureKind(error) ==
    CASE error = "" -> "none"
      [] error = "launch failed" -> "launch"
      [] error = "Timed out waiting for DevTools endpoint" -> "discovery"
      [] error \in {"connection failed", "send failed", "receive timed out", "connection lost"}
            -> "protocol"
      [] error \in {"Failed to read Chrome window bounds from DevTools.",
                    "Invalid window bounds detected."} -> "geometry"
      [] error = "capture failed" -> "capture"
      [] OTHER -> "vision"

\* the browser process is gone: it was never started, it exited after the
\* terminate signal, or it was killed
BrowserGone == chrome \in {"none", "exited", "killed"}

\* C1 (as claimed): when a run of main() that created the temporary profile
\* directory is over, the browser process is gone and the directory is
\* deleted, whatever stage failed, the browser launch included.
C1_CleanupAfterEveryRun ==
    (pc = "done" /\ tmpMade) => (BrowserGone /\ ~tmpDir)

\* C2 (as claimed): a run that failed in target discovery, in a protocol
\* exchange or in the geometry ends with a message printed, a non-zero exit
\* status, the browser gone and the temporary directory deleted.
C2_FailureExitsNonZero ==
    (pc = "done" /\ FailureKind(failure) \in {"discovery", "protocol", "geometry"})
    => (printed # "" /\ exitStatus # 0 /\ BrowserGone /\ ~tmpDir)

\* C3 (as claimed): _wait_for_load_event returns normally only when it has
\* received Page.loadEventFired.
C3_LoadReturnsOnlyOnLoadEvent ==
    (helper = "load" /\ hpc = "exit" /\ pending.kind = "return") => loadSeen

\* C8 (as claimed): whenever a helper reads the result of a request out of
\* a received message, that message is a response and carries the id of the
\* request.
C8_ResultFromMatchingResponse ==
    awaited # 0 => (used.kind = "response" /\ used.id = awaited)

\* C9: a helper creates at most one connection and never closes more than
\* it created; the socket is open only inside the try block; and when the
\* helper returns or raises, the connection it created, if any, has been
\* closed exactly once.
C9_SocketClosedOnEveryExit ==
    /\ opened <= 1
    /\ closes <= opened
    /\ sock = "open" => hpc \notin {"idle", "resolve", "connect", "exit"}
    /\ hpc = "exit" => (closes = opened /\ sock # "open")

\* C9 witness: _evaluate_script has raised the receive timeout to main()
\* and has closed, once, the connection it had created.
C9_Witness ==
    /\ helper = "evaluate"
    /\ hpc = "exit"
    /\ pending.kind = "raise"
    /\ pending.error = "receive timed out"
    /\ opened = 1
    /\ closes = 1
    /\ sock = "closed"

\* C10 (as claimed): with viewport metrics, the region has the inner width
\* and height, top = bounds.top + (outerHeight - innerHeight) and
\* left = bounds.left + (outerWidth - innerWidth) / 2, the exact half.
C10_RegionExactHalf ==
    (region # << >> /\ viewport # << >>) =>
        LET r == region[1]
            b == bounds[1]
            v == viewport[1]
        IN  /\ r.width = v.iw
            /\ r.height = v.ih
            /\ r.top = BoundsGet(b, "top") + (v.oh - v.ih)
            /\ 2 * (r.left - BoundsGet(b, "left")) = v.ow - v.iw

\* C10 (amended): with viewport metrics, the region has the inner width and
\* height, top = bounds.top + (outerHeight - innerHeight) and
\* left = bounds.left + floor((outerWidth - innerWidth) / 2): the greatest
\* integer whose double is at most the difference.  Bounds (0, 30),
\* outer 1280x750 and inner 1280x690 give the region (0, 90, 1280, 690).
C10_RegionFromViewport ==
    (region # << >> /\ viewport # << >>) =>
        LET r == region[1]
            b == bounds[1]
            v == viewport[1]
            border_left == r.left - BoundsGet(b, "left")
        IN  /\ r.width = v.iw
            /\ r.height = v.ih
            /\ r.top = BoundsGet(b, "top") + (v.oh - v.ih)
            /\ 2 * border_left <= v.ow - v.iw
            /\ v.ow - v.iw <= 2 * border_left + 1
            /\ (/\ b = WindowBounds(0, 30, 1280, 690)
                /\ v = [ow |-> 1280, oh |-> 750, iw |-> 1280, ih |-> 690])
               => r = [left |-> 0, top |-> 90, width |-> 1280, height |-> 690]

\* C10 witness: the region was computed from viewport metrics whose outer
\* width is one more than the inner width, and passed the validation.
C10_Witness ==
    /\ pc = "capture"
    /\ viewport # << >>
    /\ viewport[1].ow - viewport[1].iw = 1
    /\ region[1].left = BoundsGet(bounds[1], "left")
    /\ region[1].top = 90

\* ---------------------------------------------------------------------------
\* C11: a region whose width or height is not positive is rejected:
\* capture_frames is never called with it and no frame is grabbed or written
\* with it, whether the region came from the viewport metrics or from the raw
\* window bounds.
C11_InvalidRegionRejected ==
    /\ cpc # "idle" => cRegion.width > 0 /\ cRegion.height > 0
    /\ \A g \in grabs : g.width > 0 /\ g.height > 0
    /\ (region # << >> /\ (region[1].width <= 0 \/ region[1].height <= 0))
         => cpc = "idle" /\ grabs = {} /\ disk = {} /\ pc \in {"validate", "except", "terminate",
                                                               "wait", "kill", "rmtree", "done"}

\* a region from the raw window bounds with no width has been rejected
C11_Witness ==
    /\ failure = "Invalid window bounds detected."
    /\ viewport = << >>
    /\ region # << >> /\ region[1].width <= 0
    /\ pc = "except"


\* ---------------------------------------------------------------------------
\* C12: a failed viewport evaluation never aborts the run: whenever
\* _evaluate_script fails in any way (no value in the response, receive timeout,
\* connection or discovery failure), main() goes on with the region set to the
\* raw window bounds.
C12_EvaluateFailureFallsBack ==
    [][(pc = "evaluate" /\ hpc = "exit" /\ (pending.kind = "raise" \/ pending.value = << >>))
         => /\ pc' = "validate"
            /\ region' = <<RegionFromBounds(bounds[1])>>]_vars

\* ---------------------------------------------------------------------------
\* _get_window_bounds has returned None because the response to
\* Browser.getWindowForTarget carried no window id
WindowUnresolved ==
    /\ pc = "get_bounds" /\ helper = "get_bounds" /\ hpc = "exit"
    /\ pending.kind = "return"
    /\ window_id = ""

IsFloorOfProduct(n) ==
    /\ n * 2 * TicksPerSecond <= duration * fps
    /\ duration * fps < (n + 1) * 2 * TicksPerSecond

\* C14: when capture_frames returns normally it has captured exactly
\* floor(duration * fps) frames, for every duration, every fps > 0 and every
\* pattern of clock readings and latencies (5 s at 2 fps gives 10 frames, 1 s at
\* 3 fps gives 3); the count is never exceeded while it runs.
C14_ExactFrameCount ==
    /\ cpc = "returned" => /\ IsFloorOfProduct(Len(frame_paths))
                           /\ IsFloorOfProduct(Cardinality(disk))
                           /\ frame_count = Len(frame_paths)
    /\ cpc \in {"loop", "raised"} /\ fps > 0
         => \E n \in Len(frame_paths) .. MaxDuration * MaxFps : IsFloorOfProduct(n)
    /\ cpc = "returned" /\ duration = 5 * TicksPerSecond /\ fps = 2 * 2
         => Len(frame_paths) = 10
    /\ cpc = "returned" /\ duration = TicksPerSecond /\ fps = 2 * 3
         => Len(frame_paths) = 3

\* five seconds at two frames per second have been captured on a clock that
\* ran late
C14_Witness ==
    /\ cpc = "returned"
    /\ duration = 5 * TicksPerSecond /\ fps = 2 * 2
    /\ Len(frame_paths) = 10
    /\ cElapsed > duration

\* ---------------------------------------------------------------------------
\* the number a sequence of decimal digits denotes
RECURSIVE DigitsValue(_)
DigitsValue(ds) ==
    IF ds = << >> THEN 0
    ELSE 10 * DigitsValue(SubSeq(ds, 1, Len(ds) - 1)) + ds[Len(ds)]

\* C15: at every point of the capture loop the frame paths are exactly
\* frame_0000 .. frame_(n-1) in capture order, n the frame count: indices
\* strictly increasing from 0 without gap or duplicate, capture times
\* non-decreasing, one distinct path and file per frame.
C15_FramesInOrder ==
    cpc \in {"loop", "returned", "raised"} =>
        /\ Len(frame_paths) = frame_count
        /\ \A i \in 1 .. Len(frame_paths) :
             /\ DigitsValue(frame_paths[i]) = i - 1
             /\ Len(frame_paths[i]) >= 4
             /\ \A d \in 1 .. Len(frame_paths[i]) : frame_paths[i][d] \in 0 .. 9
        /\ \A i, j \in 1 .. Len(frame_paths) : i < j => frame_paths[i] # frame_paths[j]
        /\ cpc # "raised" => /\ disk = {frame_paths[i] : i \in 1 .. Len(frame_paths)}
                              /\ Cardinality(disk) = frame_count
        /\ stamps.prev <= stamps.last

\* more than ten frames are captured, the last later than the one before
C15_Witness ==
    /\ cpc = "loop"
    /\ Len(frame_paths) > 10
    /\ stamps.prev < stamps.last

\* ---------------------------------------------------------------------------
\* the loop is about to read the clock with frames left to capture
AtLoopTest == cpc = "loop" /\ frame_count < target_frames

\* the time elapsed has reached frame_count intervals of 1 / fps
ElapsedReachesFrame == cElapsed * fps >= frame_count * 2 * TicksPerSecond

\* C16: frame k is never captured while the elapsed time is below k / fps; an
\* iteration that observes the elapsed time at or past k / fps with k frames
\* captured captures frame k in that iteration, without sleeping; overdue
\* frames are captured in turn, none skipped.
C16_CapturedWhenDue ==
    /\ [](frame_count > 0 => stamps.last * fps >= (frame_count - 1) * 2 * TicksPerSecond)
    /\ [][AtLoopTest /\ ElapsedReachesFrame
            => \/ frame_count' = frame_count + 1 /\ stamps'.last = cElapsed
               \/ cpc' = "raised"]_vars
    /\ [][AtLoopTest /\ ~ElapsedReachesFrame
            => frame_count' = frame_count /\ frame_paths' = frame_paths /\ grabs' = grabs]_vars
    /\ [][frame_count' \in {frame_count, frame_count + 1}]_vars

\* a frame has been captured at a time when the next one was due as well,
\* after a frame that was captured at the very time it fell due
C16_Witness ==
    /\ AtLoopTest
    /\ frame_count >= 3
    /\ stamps.prev * fps = (frame_count - 2) * 2 * TicksPerSecond
    /\ stamps.last * fps >= frame_count * 2 * TicksPerSecond

\* ---------------------------------------------------------------------------
\* C19: the capture region is frozen: every grab of a run uses the very
\* {left, top, width, height} that was passed to capture_frames, and no step
\* recomputes or modifies it while frames are captured.
C19_RegionFrozen ==
    /\ [](cpc # "idle" => cRegion = region[1] /\ grabs \subseteq {region[1]})
    /\ [][cpc # "idle" => cRegion' = cRegion /\ region' = region]_vars

\* several frames have been grabbed with the region computed from the viewport
C19_Witness ==
    /\ cpc = "returned"
    /\ Len(frame_paths) >= 2
    /\ viewport # << >>
    /\ grabs = {region[1]}

\* ---------------------------------------------------------------------------
\* the region is computed and has passed the test of lines 370-371
RegionValidated ==
    /\ region # << >>
    /\ region[1].width > 0 /\ region[1].height > 0
    /\ pc \notin {"start", "setup", "launch", "load", "front", "set_bounds", "get_bounds",
                  "evaluate", "validate"}

\* capture_frames has returned the complete list of frames
CaptureComplete ==
    /\ cpc = "returned"
    /\ Len(frame_paths) = target_frames

\* C18: frame capture begins only after the load completion of the reload has
\* been observed and after the region has been computed and validated, and the
\* vision client is called only after capture_frames has returned the complete
\* frame list.
C18_StagesInOrder ==
    /\ cpc # "idle" => loadSeen /\ RegionValidated
    /\ pc \in {"client", "vision"} => CaptureComplete

\* the order of the stages, the observation of the load event left aside
StagesInOrderButLoad ==
    /\ cpc # "idle" => RegionValidated
    /\ pc \in {"client", "vision"} => CaptureComplete

\* ---------------------------------------------------------------------------
\* the cleanup block of lines 405-411 has been reached
CleanupReached == chrome \in {"terminating", "exited", "killed"}

\* C17: no step blocks for ever: as long as the clock advances and every
\* blocking call returns or times out, every run of main() reaches the cleanup
\* block.
C17_EveryRunReachesCleanup ==
    pc = "done" => CleanupReached

\* C17, amended: as long as the clock advances and every blocking call
\* returns or times out, every run of main() ends; a run that has entered the
\* try block of line 337 reaches the cleanup block before it ends, and every
\* call of capture_frames returns or raises.
C17_EveryRunEnds ==
    /\ <>(pc = "done")
    /\ (pc = "load") ~> (pc = "terminate" /\ ~CleanupReached)
    /\ (pc = "terminate") ~> (pc = "done" /\ CleanupReached)
    /\ (cpc = "start") ~> (cpc \in {"returned", "raised"})

\* the run has ended after the cleanup and a capture of ten frames
C17_Witness ==
    /\ pc = "done"
    /\ CleanupReached
    /\ cpc = "returned"
    /\ Len(frame_paths) >= 10

\* ---------------------------------------------------------------------------
\* the tries that failed with an error the copy retries
RetryableFailure(o) == Caught(o) /\ IsRetryable(kCopy, o)

\* C20: in both copies of OpenRouterClient.chat, with attempts failing one
\* after the other with retryable errors and a base delay d, the sleep before
\* the i-th retry is d * 2^(i-1) (d, 2d, 4d, ...), and once max_retries retries
\* are used up a further failure raises OpenRouterError without another sleep
\* or request.
C20_BackoffDoubles ==
    /\ Len(sleeps) >= 1 => sleeps[1] = backoff_initial
    /\ \A i \in 1 .. Len(sleeps) - 1 : sleeps[i + 1] = 2 * sleeps[i]
    /\ \A i \in 1 .. Len(sleeps) : RetryableFailure(posts[i])
    /\ Len(sleeps) <= max_retries
    /\ Len(posts) <= Len(sleeps) + 1
    /\ kpc = "sleep" => Len(posts) = Len(sleeps)
    /\ (Len(posts) = max_retries + 1 /\ RetryableFailure(posts[Len(posts)]))
         => /\ kpc = "raised"
            /\ kError = FailedAfterAttempts
            /\ Len(sleeps) = max_retries

\* the copy of the capture tool has slept d, 2d and 4d and then given up
C20_Witness ==
    /\ kCopy = "capture"
    /\ kpc = "raised"
    /\ kError = FailedAfterAttempts
    /\ backoff_initial = 2
    /\ sleeps = <<2, 4, 8>>
    /\ \A i \in 1 .. Len(posts) : posts[i] = "status_retryable"

\* ---------------------------------------------------------------------------
\* C21: the attempts of OpenRouterClient.chat are bounded by the configured
\* maximum: no call makes more than max_retries POST requests, and when every
\* attempt fails with a retryable error exactly max_retries requests are made
\* before the error "failed after max_retries attempts" is raised.
C21_AtMostMaxRetriesPosts ==
    max_retries >= 1 =>
        /\ Len(posts) <= max_retries
        /\ kError = FailedAfterAttempts /\ (\A i \in 1 .. Len(posts) : RetryableFailure(posts[i]))
             => Len(posts) = max_retries

\* ---------------------------------------------------------------------------
\* C22: both copies retry on the statuses 429, 500, 502, 503 and 504 only: a
\* response with another error status is surfaced on the attempt that got it,
\* with no sleep and no further request.
C22_OtherStatusNotRetried ==
    \A i \in 1 .. Len(posts) :
        posts[i] = "status_other"
            => /\ i = Len(posts)
               /\ kpc = "raised"
               /\ Len(sleeps) = i - 1

\* ---------------------------------------------------------------------------
\* C27: in both copies, a successful response whose JSON body has an "error"
\* field makes the call raise OpenRouterError on that attempt, with no sleep
\* and no further request, whatever number of retries is left.
C27_ErrorPayloadRaisesAtOnce ==
    \A i \in 1 .. Len(posts) :
        posts[i] = "error_payload"
            => /\ i = Len(posts)
               /\ kpc = "raised"
               /\ kError = ErrorPayload
               /\ Len(sleeps) = i - 1

\* an error payload came on the second attempt, with retries left
C27_Witness ==
    /\ kpc = "raised"
    /\ Len(posts) = 2
    /\ posts[2] = "error_payload"
    /\ max_retries >= 3
    /\ Len(sleeps) = 1

\* ---------------------------------------------------------------------------
\* capture_frames has failed in tools.to_png, writing the frame frame_count
WriteFailed ==
    /\ cpc = "raised"
    /\ cError.msg \in {"Permission denied", "No space left on device"}

\* C23: when writing frame k fails, capture_frames fails with an error that
\* names index k, the frames 0 .. k-1 stay on disk, no frame beyond k is
\* captured and the vision client is not called in that run.
C23_WriteFailureNamesIndex ==
    WriteFailed =>
        /\ cError.filename = <<FrameName(frame_count)>>
        /\ \A i \in 0 .. frame_count - 1 : FrameName(i) \in disk
        /\ \A f \in disk : DigitsValue(f) <= frame_count
        /\ Len(frame_paths) = frame_count
        /\ pc \notin {"client", "vision"}

\* the consequences of a failed write, the wording of the error left aside
WriteFailureStopsRun ==
    WriteFailed =>
        /\ \A i \in 0 .. frame_count - 1 : FrameName(i) \in disk
        /\ \A f \in disk : DigitsValue(f) <= frame_count
        /\ Len(frame_paths) = frame_count
        /\ pc \notin {"client", "vision"}

\* ---------------------------------------------------------------------------
\* C24: analyze_image called with a path that does not exist raises ValueError
\* before any client is constructed and any request is sent; main() of
\* analyze_image.py returns 1 for every failure of analyze_image and 0 only
\* when a result was printed.
C24_MissingImageFailsFirst ==
    /\ (image_path = "missing" /\ apc \notin {"load", "exists"})
         => aError = "ValueError" /\ aClients = 0 /\ aRequests = 0 /\ ~aPrinted
    /\ apc = "exit" => /\ aStatus \in {0, 1}
                       /\ aStatus = 0 <=> aPrinted
                       /\ aError # "" => aStatus = 1
    /\ apc # "exit" => aStatus = -1

\* main() has returned 1 for a path that does not exist, with an API key set
C24_Witness ==
    /\ apc = "exit"
    /\ image_path = "missing"
    /\ aKey
    /\ aStatus = 1

\* ---------------------------------------------------------------------------
\* the file at path p has a line that assigns key k
Defines(p, k) ==
    /\ files[p].is_file
    /\ \E i \in 1 .. Len(files[p].lines) :
         files[p].lines[i].kind # "skip" /\ files[p].lines[i].key = k

\* the value of the first line of the file at p that assigns k
FirstValue(p, k) ==
    LET ls == files[p].lines
        i == CHOOSE n \in 1 .. Len(ls) :
               /\ ls[n].kind # "skip" /\ ls[n].key = k
               /\ \A m \in 1 .. n - 1 : ls[m].kind = "skip" \/ ls[m].key # k
    IN  StripQuotes(ls[i].value)

\* for every key that was not set before, the first file of the search order
\* that assigns it has supplied its value
FirstFileWins ==
    \A k \in Keys :
        envBefore[k] = << >> =>
            IF \E i \in 1 .. Len(searched) : Defines(searched[i], k)
            THEN LET i == CHOOSE n \in 1 .. Len(searched) :
                            /\ Defines(searched[n], k)
                            /\ \A m \in 1 .. n - 1 : ~Defines(searched[m], k)
                 IN  environ[k] = <<FirstValue(searched[i], k)>> /\ setBy[k] = searched[i]
            ELSE environ[k] = << >>

\* the first call of load_environment has returned and no other was made
FirstCallOver == epc = "returned" /\ eCalls = 1

\* every file of the search order can be read and has no assignment that raises
SearchedFilesClean ==
    \A i \in 1 .. Len(searched) :
        LET f == files[searched[i]] IN
          f.is_file => /\ f.readable
                       /\ \A n \in 1 .. Len(f.lines) : f.lines[n].kind # "bad"

\* no step changes or removes a variable that is set
NeverOverrides ==
    [][\A k \in Keys : environ[k] # << >> => environ'[k] = environ[k]]_vars

C25_TerminateWaitKillDelete ==
    /\ [][chrome = "running" => chrome' \in {"running", "terminating"}]_vars
    /\ [][chrome' = "terminating" /\ chrome # "terminating" => pc = "terminate"]_vars
    /\ [][chrome' = "killed" /\ chrome # "killed" => pc = "kill" /\ chrome = "terminating"]_vars
    /\ [](pc = "kill" => chrome = "terminating")
    /\ [][tmpDir /\ ~tmpDir' => pc = "rmtree" /\ chrome \in {"exited", "killed"}]_vars
    /\ [](pc = "rmtree" => chrome \in {"exited", "killed"} /\ tmpDir)

\* a run that failed in the capture has ended with the browser killed and the
\* directory deleted
C25_Witness ==
    /\ pc = "done"
    /\ cpc = "raised"
    /\ chrome = "killed"
    /\ ~tmpDir

\* ---------------------------------------------------------------------------
\* an entry that matches and has a socket url, but neither id nor targetId
Idless(e) == Candidate(e) /\ e.id = "" /\ e.targetId = ""

\* C28: a matching page entry with a socket url and neither id nor targetId
\* is never returned, and the error raised for it never reaches the caller:
\* the resolver goes on to the sleep and the next poll, and the only way it
\* fails is the timeout error.
C28_IdlessMatchSwallowed ==
    /\ [](rpc = "returned" =>
            /\ rResult.id # ""
            /\ \A i \in DOMAIN LastEntries :
                 Idless(LastEntries[i]) => i # FirstCandidate)
    /\ [][(rPolls' = rPolls + 1 /\ rPayload'.ok /\ FirstCandidate' # 0
           /\ Idless(rPayload'.entries[FirstCandidate']))
          => (rpc' = "sleep" /\ rResult' = NoResult /\ rRaised')]_vars
    /\ [](rRaised => rpc \in {"loop", "sleep", "returned", "timeout"})
    /\ [](rpc = "sleep" => ENABLED RSleep)
    /\ [](rpc = "loop" => ENABLED (RPoll \/ RTimeout))

\* C28 witness: line 163 raised in a poll and the resolver ended with the
\* timeout error
C28_Witness ==
    /\ rpc = "timeout"
    /\ rRaised
    /\ rResult = NoResult

\* ---------------------------------------------------------------------------
\* C26: when _wait_for_load_event returns because it received a load event,
\* that event was fired by the reload it issued, never by the initial load
\* of the --app url.
C26_LoadEventIsFromReload ==
    (helper = "load" /\ hpc \in {"finally", "exit"} /\ pending.kind = "return" /\ loadSeen)
        => loadCause = "reload"

====
